---- MODULE Spec2Model ----
(***************************************************************************)
(* Construction-materials system: the inventory reservation ledger         *)
(* (inventory-service) and the shortage-triggered procurement saga         *)
(* (procurement-service).                                                  *)
(*                                                                         *)
(* Every repository method opens with an awaited SELECT and ends with an   *)
(* awaited COMMIT; no statement takes a row lock and the UPDATE issued at  *)
(* commit carries the value computed from the row as it was selected.      *)
(* A call is therefore modelled as one step per awaited database round     *)
(* trip: the SELECT copies the committed row into the call's locals, the   *)
(* COMMIT writes the columns the call assigned.                            *)
(***************************************************************************)
EXTENDS Integers, Sequences, FiniteSets, TLC

\* ------------------------------------------------------------------ bounds
NumCallers == 2
MaxQuantity == 2
MaxReservations == 2
MaxMovements == 1
MaxDelta == 1
MaxAdjustments == 2
MaxMessages == 2
MaxThreshold == 1

\* ----------------------------------------------------------------- domains
Null == "null"
Callers == 1..NumCallers
StoredMaterialIds == {"m1"}
MaterialIds == StoredMaterialIds \cup {"m0"}
RequestIds == {"req1"}
ReservationIds == 1..(MaxReservations + 1)
ReserveQuantities == 1..MaxQuantity
Deltas == (0 - MaxDelta)..MaxDelta
StockUpdateReason == {"PURCHASE", "CONSUMPTION"}
ReferenceIds == {Null}
ReservationStatuses == {"ACTIVE", "FULFILLED", "CANCELLED"}
RequestedQuantities == 1..(MaxQuantity + 1)
CheckRequestIds == {Null} \cup RequestIds
GivenReferenceIds == ReferenceIds \cup {"ref1"}

VARIABLES
    materials,      \* materials table: id -> [quantity, reserved, min_threshold]
    reservations,   \* reservations table: sequence, a row's id is its index
    movements,      \* stock_movements table: sequence in insertion order
    pc,             \* per caller: the awaited statement the call is at
    loc,            \* per caller: the locals of the call in flight
    result,         \* the response of the call that returned last
    messages,       \* what the message broker accepted, in publication order
    initial_quantity, \* per material: the quantity it was created with
    orders,         \* purchase orders the order repository holds: id -> order
    orderSeq,       \* how many order ids have been drawn
    psPc,           \* processShortage: "idle", or "placing" while it awaits
                    \* the Supplier Placement port
    psOrder,        \* processShortage: the order object of the call in flight
    shortageResult, \* what the latest processShortage call gave its caller
    statusResult,   \* what the latest order status update gave its caller
    inventory_client \* whether an inventory client was injected

ledgerVars == <<materials, reservations, movements, pc, loc, result,
                messages, initial_quantity>>
procurementVars == <<orders, orderSeq, psPc, psOrder, shortageResult,
                     statusResult, inventory_client>>
vars == <<materials, reservations, movements, pc, loc, result, messages,
          initial_quantity, orders, orderSeq, psPc, psOrder, shortageResult,
          statusResult, inventory_client>>

\* ----------------------------------------------------------------- helpers
\* the smaller of two numbers
Min(a, b) == IF a <= b THEN a ELSE b

\* the first of two numbers, whatever the second
First(a, b) == a

Max(a, b) == IF a >= b THEN a ELSE b

\* sum of the quantities of the ACTIVE reservations of a material among the
\* first n rows of the reservations table
RECURSIVE ActiveReservedUpTo(_, _)
ActiveReservedUpTo(material_id, n) ==
    IF n = 0 THEN 0
    ELSE ActiveReservedUpTo(material_id, n - 1)
         + (IF /\ reservations[n].material_id = material_id
               /\ reservations[n].status = "ACTIVE"
            THEN reservations[n].quantity ELSE 0)

ActiveReserved(material_id) ==
    ActiveReservedUpTo(material_id, Len(reservations))

NoLocal ==
    [material_id |-> Null, quantity |-> 0, request_id |-> Null,
     reservation_id |-> 0, row_quantity |-> 0, row_reserved |-> 0,
     row_found |-> FALSE, delta |-> 0, reason |-> Null, reference_id |-> Null,
     new_quantity |-> 0, requested_quantity |-> 0, available_quantity |-> 0,
     shortage |-> 0]

NoResult ==
    [op |-> Null, material_id |-> Null, reservation_id |-> 0,
     success |-> FALSE, value |-> 0, error |-> Null, shortage |-> 0]

\* a response: the call it answers (op and the id it was given) and its payload
Response(op, material_id, reservation_id, success, value, error) ==
    [op |-> op, material_id |-> material_id, reservation_id |-> reservation_id,
     success |-> success, value |-> value, error |-> error, shortage |-> 0]

\* the response to CheckAvailability: AvailabilityResultDTO as the servicer
\* hands it back (is_available is shortage = 0)
AvailabilityResult(material_id, available_quantity, shortage) ==
    [Response("check", material_id, 0, TRUE, available_quantity, Null)
        EXCEPT !.shortage = shortage]

Return(p, r) ==
    /\ pc' = [pc EXCEPT ![p] = "idle"]
    /\ loc' = [loc EXCEPT ![p] = NoLocal]
    /\ result' = r

Goto(p, label, l) ==
    /\ pc' = [pc EXCEPT ![p] = label]
    /\ loc' = [loc EXCEPT ![p] = l]
    /\ UNCHANGED result

InFlight(label) == Cardinality({p \in Callers : pc[p] = label})

\* ------------------------------------------------------- Material (entity)
\* the stock on hand, reservations not taken off
available_on_hand(m) == Max(0, m.quantity)

available(m) == Max(0, m.quantity - m.reserved)

\* low stock taken to include the threshold itself
is_low_stock_at_threshold(m) == available(m) <= m.min_threshold

is_low_stock(m) == available(m) < m.min_threshold

\* the stock test that lets every request through
can_reserve_anything(m, quantity) == TRUE

can_reserve(m, quantity) == available(m) >= quantity

\* ------------------------------------------------- SQLAlchemyMaterialRepository
NoRow == [found |-> FALSE]

\* the lookup whose SELECT has no WHERE clause: it takes a row of the table,
\* whichever id was asked for
get_any_row(material_id) ==
    IF DOMAIN materials = {} THEN NoRow
    ELSE materials[CHOOSE m \in DOMAIN materials : TRUE]

get_by_id(material_id) ==
    IF material_id \in DOMAIN materials THEN materials[material_id] ELSE NoRow

\* the reservation row inserted without a status of its own
ReservationModelPending(material_id, request_id, quantity) ==
    [material_id |-> material_id, request_id |-> request_id,
     quantity |-> quantity, status |-> "PENDING"]

\* reserve, lines 205-211: the reservation row it inserts
ReservationModel(material_id, request_id, quantity) ==
    [material_id |-> material_id, request_id |-> request_id,
     quantity |-> quantity, status |-> "ACTIVE"]

\* the stock movement row inserted without its reference
StockMovementModelUnreferenced(material_id, delta, reason, reference_id) ==
    [material_id |-> material_id, quantity_delta |-> delta,
     reason |-> reason, reference_id |-> Null]

\* update_quantity, lines 171-177: the stock movement row it inserts
StockMovementModel(material_id, delta, reason, reference_id) ==
    [material_id |-> material_id, quantity_delta |-> delta,
     reason |-> reason, reference_id |-> reference_id]

\* reserve, lines 197-199: the stock test on the selected row
ReserveRowRejects(row_quantity, row_reserved, quantity) ==
    row_quantity - row_reserved < quantity

\* the guard of release_reservation without its status test
CanReleaseAnyStatus(reservation_id) ==
    reservation_id \in DOMAIN reservations

\* release_reservation, line 222: the guard on the selected reservation
CanRelease(reservation_id) ==
    /\ reservation_id \in DOMAIN reservations
    /\ reservations[reservation_id].status = "ACTIVE"

\* ---------------------------------------------------------- MessagePublisher
\* main() always hands the servicer a publisher (RabbitMQ, or the stub)
message_publisher == TRUE

\* how an awaited publish(exchange, routing_key, message) can end: it returns
\* True, it returns False, or it raises
PublishOutcomes == {"True", "False", "raises"}

\* the exchange after the call: the broker holds the message only when
\* publish returned True
publish(outcome, message) ==
    IF outcome = "True" THEN Append(messages, message) ELSE messages

\* ------------------------------------------------------------ reserve call
\* ReserveMaterialUseCase.execute up to its await of repository.reserve
ReserveMaterialUseCase_execute(p, material_id, quantity, request_id) ==
    /\ UNCHANGED <<procurementVars, initial_quantity>>
    /\ pc[p] = "idle"
    /\ Len(reservations) + InFlight("reserve_select")
         + InFlight("reserve_commit") < MaxReservations
    /\ UNCHANGED <<materials, reservations, movements, messages>>
    /\ LET material == get_by_id(material_id) IN
       IF material = NoRow
       THEN Return(p, Response("reserve", material_id, 0, FALSE,
                 0, "not found"))
       ELSE IF ~can_reserve(material, quantity)
       THEN Return(p, Response("reserve", material_id, 0, FALSE,
                 0, "Insufficient quantity"))
       ELSE Goto(p, "reserve_select",
                 [NoLocal EXCEPT !.material_id = material_id,
                                 !.quantity = quantity,
                                 !.request_id = request_id])

\* repository.reserve: the SELECT of the material row
reserve_select(p) ==
    /\ UNCHANGED <<procurementVars, initial_quantity>>
    /\ pc[p] = "reserve_select"
    /\ UNCHANGED <<materials, reservations, movements, messages>>
    /\ LET model == get_by_id(loc[p].material_id) IN
       IF model = NoRow
       THEN Return(p, Response("reserve", loc[p].material_id, 0, FALSE,
                 0, "Failed to create reservation"))
       ELSE Goto(p, "reserve_commit",
                 [loc[p] EXCEPT !.row_found = TRUE,
                                !.row_quantity = model.quantity,
                                !.row_reserved = model.reserved])

\* repository.reserve: check, increment, insert of the reservation, COMMIT
reserve_commit(p) ==
    /\ UNCHANGED <<procurementVars, initial_quantity>>
    /\ pc[p] = "reserve_commit"
    /\ UNCHANGED <<movements, messages>>
    /\ LET l == loc[p] IN
       IF ReserveRowRejects(l.row_quantity, l.row_reserved, l.quantity)
       THEN /\ UNCHANGED <<materials, reservations>>
            /\ Return(p, Response("reserve", l.material_id, 0, FALSE,
                 0, "Failed to create reservation"))
       ELSE /\ materials' =
                 IF l.material_id \in DOMAIN materials
                 THEN [materials EXCEPT ![l.material_id].reserved =
                                            l.row_reserved + l.quantity]
                 ELSE materials
            /\ reservations' = Append(reservations,
                 ReservationModel(l.material_id, l.request_id, l.quantity))
            /\ Return(p, Response("reserve", l.material_id, 0, TRUE,
                 Len(reservations) + 1, Null))

\* ------------------------------------------------------------ release call
\* release_reservation: the SELECT of the reservation and its guard
release_select_reservation(p, reservation_id) ==
    /\ UNCHANGED <<procurementVars, initial_quantity>>
    /\ pc[p] = "idle"
    /\ UNCHANGED <<materials, reservations, movements, messages>>
    /\ IF ~CanRelease(reservation_id)
       THEN Return(p, Response("release", Null, reservation_id, FALSE,
                 0, "Reservation not found or already released"))
       ELSE Goto(p, "release_select_material",
                 [NoLocal EXCEPT !.reservation_id = reservation_id,
                                 !.material_id =
                                     reservations[reservation_id].material_id,
                                 !.quantity =
                                     reservations[reservation_id].quantity])

\* release_reservation: the SELECT of the material row
release_select_material(p) ==
    /\ UNCHANGED <<procurementVars, initial_quantity>>
    /\ pc[p] = "release_select_material"
    /\ UNCHANGED <<materials, reservations, movements, messages>>
    /\ LET material == get_by_id(loc[p].material_id) IN
       Goto(p, "release_commit",
            IF material = NoRow
            THEN [loc[p] EXCEPT !.row_found = FALSE]
            ELSE [loc[p] EXCEPT !.row_found = TRUE,
                                !.row_reserved = material.reserved])

\* the COMMIT of a release that cancels the reservation and leaves the
\* material row as it was
release_commit_status_only(p) ==
    /\ UNCHANGED <<procurementVars, initial_quantity>>
    /\ pc[p] = "release_commit"
    /\ UNCHANGED <<materials, movements, messages>>
    /\ reservations' =
         [reservations EXCEPT ![loc[p].reservation_id].status = "CANCELLED"]
    /\ Return(p, Response("release", Null, loc[p].reservation_id, TRUE,
              0, Null))

\* release_reservation: decrement, status change, COMMIT
release_commit(p) ==
    /\ UNCHANGED <<procurementVars, initial_quantity>>
    /\ pc[p] = "release_commit"
    /\ UNCHANGED <<movements, messages>>
    /\ LET l == loc[p] IN
       /\ materials' =
            IF l.row_found /\ l.material_id \in DOMAIN materials
            THEN [materials EXCEPT ![l.material_id].reserved =
                                       Max(0, l.row_reserved - l.quantity)]
            ELSE materials
       /\ reservations' =
            [reservations EXCEPT ![l.reservation_id].status = "CANCELLED"]
       /\ Return(p, Response("release", Null, l.reservation_id, TRUE,
                 0, Null))

\* ------------------------------------------------------- adjustQuantity call
\* update_quantity: the SELECT of the material row
update_quantity_select(p, material_id, delta, reason, reference_id) ==
    /\ UNCHANGED <<procurementVars, initial_quantity>>
    /\ pc[p] = "idle"
    /\ UNCHANGED <<materials, reservations, movements, messages>>
    /\ LET model == get_by_id(material_id) IN
       IF model = NoRow
       THEN Return(p, Response("adjust", material_id, 0, FALSE,
                 0, "not found"))
       ELSE /\ model.quantity + delta <= MaxQuantity
            /\ Goto(p, "update_quantity_commit",
                    [NoLocal EXCEPT !.material_id = material_id,
                                    !.delta = delta,
                                    !.reason = reason,
                                    !.reference_id = reference_id,
                                    !.row_found = TRUE,
                                    !.row_quantity = model.quantity])

\* the COMMIT of an adjustment that writes the whole row back as the call
\* holds it, reserved included
update_quantity_commit_whole_row(p) ==
    /\ UNCHANGED <<procurementVars, initial_quantity>>
    /\ pc[p] = "update_quantity_commit"
    /\ UNCHANGED <<reservations, messages>>
    /\ LET l == loc[p] IN
       /\ materials' =
            IF l.material_id \in DOMAIN materials
            THEN [materials EXCEPT
                    ![l.material_id].quantity = Max(0, l.row_quantity + l.delta),
                    ![l.material_id].reserved = l.row_reserved]
            ELSE materials
       /\ movements' = Append(movements,
            StockMovementModel(l.material_id, l.delta, l.reason,
                               l.reference_id))
       /\ Goto(p, "update_quantity_refresh", l)

\* the COMMIT of an adjustment that keeps one stock movement per material:
\* the row of the material's previous adjustment is overwritten
update_quantity_commit_rewriting(p) ==
    /\ UNCHANGED <<procurementVars, initial_quantity>>
    /\ pc[p] = "update_quantity_commit"
    /\ UNCHANGED <<reservations, messages>>
    /\ LET l == loc[p]
           row == StockMovementModel(l.material_id, l.delta, l.reason,
                                     l.reference_id) IN
       /\ materials' =
            IF l.material_id \in DOMAIN materials
            THEN [materials EXCEPT ![l.material_id].quantity =
                                       Max(0, l.row_quantity + l.delta)]
            ELSE materials
       /\ movements' = IF movements = <<>> THEN <<row>>
                       ELSE [movements EXCEPT ![Len(movements)] = row]
       /\ Goto(p, "update_quantity_refresh", l)

\* update_quantity: clamp, insert of the stock movement, COMMIT
update_quantity_commit(p) ==
    /\ UNCHANGED <<procurementVars, initial_quantity>>
    /\ pc[p] = "update_quantity_commit"
    /\ UNCHANGED <<reservations, messages>>
    /\ LET l == loc[p]
           new_quantity == Max(0, l.row_quantity + l.delta) IN
       /\ materials' =
            IF l.material_id \in DOMAIN materials
            THEN [materials EXCEPT ![l.material_id].quantity = new_quantity]
            ELSE materials
       /\ movements' = Append(movements,
            StockMovementModel(l.material_id, l.delta, l.reason,
                               l.reference_id))
       /\ Goto(p, "update_quantity_refresh", l)

\* update_quantity: session.refresh(model) reads the row again; the entity
\* handed to UpdateStockUseCase.execute carries what it read, and execute
\* then awaits the publication of "stock.updated"
update_quantity_refresh(p) ==
    /\ UNCHANGED <<procurementVars, initial_quantity>>
    /\ pc[p] = "update_quantity_refresh"
    /\ UNCHANGED <<materials, reservations, movements, messages>>
    /\ LET model == get_by_id(loc[p].material_id) IN
       Goto(p, "update_stock_publish",
            [loc[p] EXCEPT !.new_quantity =
                IF model = NoRow THEN 0 ELSE model.quantity])

\* UpdateStockUseCase.execute: publish returned or raised; the result is
\* built from the entity update_quantity returned
update_stock_publish(p, outcome) ==
    /\ UNCHANGED <<procurementVars, initial_quantity>>
    /\ pc[p] = "update_stock_publish"
    /\ UNCHANGED <<materials, reservations, movements>>
    /\ LET l == loc[p] IN
       /\ messages' = publish(outcome,
            [routing_key |-> "stock.updated", material_id |-> l.material_id,
             new_quantity |-> l.new_quantity, delta |-> l.delta,
             reason |-> l.reason])
       /\ IF outcome = "raises"
          THEN Return(p, Response("adjust", l.material_id, 0, FALSE,
                    0, "INTERNAL"))
          ELSE Return(p, Response("adjust", l.material_id, 0, TRUE,
                    l.new_quantity, Null))

\* ---------------------------------------------------- CheckAvailability call
\* the check that takes an unknown material for one with nothing available
\* and goes on to publish its shortage
CheckAvailabilityUseCase_execute_unknown_as_empty(p, material_id, requested_quantity, request_id) ==
    /\ UNCHANGED <<procurementVars, initial_quantity>>
    /\ pc[p] = "idle"
    /\ UNCHANGED <<materials, reservations, movements, messages>>
    /\ LET material == get_by_id(material_id)
           free == IF material = NoRow THEN 0 ELSE available(material)
           shortage == Max(0, requested_quantity - free) IN
       IF shortage > 0 /\ message_publisher
       THEN Goto(p, "check_publish",
                 [NoLocal EXCEPT
                     !.material_id = material_id,
                     !.request_id = request_id,
                     !.requested_quantity = requested_quantity,
                     !.available_quantity = free,
                     !.shortage = shortage])
       ELSE Return(p, AvailabilityResult(material_id, free, shortage))

\* CheckAvailabilityUseCase.execute up to its await of publish
CheckAvailabilityUseCase_execute(p, material_id, requested_quantity, request_id) ==
    /\ UNCHANGED <<procurementVars, initial_quantity>>
    /\ pc[p] = "idle"
    /\ UNCHANGED <<materials, reservations, movements, messages>>
    /\ LET material == get_by_id(material_id) IN
       IF material = NoRow
       THEN Return(p, Response("check", material_id, 0, FALSE,
                 0, "NOT_FOUND"))
       ELSE LET shortage == Max(0, requested_quantity - available(material)) IN
            IF shortage > 0 /\ message_publisher
            THEN Goto(p, "check_publish",
                      [NoLocal EXCEPT
                          !.material_id = material_id,
                          !.request_id = request_id,
                          !.requested_quantity = requested_quantity,
                          !.available_quantity = available(material),
                          !.shortage = shortage])
            ELSE Return(p, AvailabilityResult(material_id,
                            available(material), shortage))

\* CheckAvailabilityUseCase.execute: publish of the shortage event returned
\* or raised
check_publish(p, outcome) ==
    /\ UNCHANGED <<procurementVars, initial_quantity>>
    /\ pc[p] = "check_publish"
    /\ UNCHANGED <<materials, reservations, movements>>
    /\ LET l == loc[p] IN
       /\ messages' = publish(outcome,
            [routing_key |-> "material.shortage",
             material_id |-> l.material_id,
             current_quantity |-> l.available_quantity,
             requested_quantity |-> l.requested_quantity,
             shortage |-> l.shortage,
             triggered_by_request_id |-> l.request_id])
       /\ IF outcome = "raises"
          THEN Return(p, Response("check", l.material_id, 0, FALSE,
                    0, "INTERNAL"))
          ELSE Return(p, AvailabilityResult(l.material_id,
                         l.available_quantity, l.shortage))

\* ---------------------------------------------------------- createMaterial call
\* materials.name, where a specification keeps the catalogue columns
MaterialNames == {"cement", "sand"}

\* get_by_name: the row WHERE name == name, None when there is none
get_by_name(name) ==
    IF \E m \in DOMAIN materials : materials[m].name = name
    THEN materials[CHOOSE m \in DOMAIN materials : materials[m].name = name]
    ELSE NoRow

\* str(uuid.uuid4()) for a material: an id no row of the table has
material_uuid4 == "new-" \o ToString(Cardinality(DOMAIN materials) + 1)

\* CreateMaterialUseCase.execute up to its second await: the duplicate check,
\* ValueError (ALREADY_EXISTS) when a row of that name is there
CreateMaterialUseCase_execute(p, name, quantity, min_threshold) ==
    /\ UNCHANGED <<procurementVars, initial_quantity>>
    /\ pc[p] = "idle"
    /\ UNCHANGED <<materials, reservations, movements, messages>>
    /\ IF get_by_name(name) # NoRow
       THEN Return(p, Response("create", Null, 0, FALSE, 0, "ALREADY_EXISTS"))
       ELSE Goto(p, "save",
                 [name |-> name, quantity |-> quantity,
                  min_threshold |-> min_threshold])

\* the INSERT committed whatever names the table holds
save_unconstrained(p) ==
    /\ UNCHANGED procurementVars
    /\ pc[p] = "save"
    /\ UNCHANGED <<reservations, movements, messages>>
    /\ LET id == material_uuid4 IN
       /\ materials' = (id :> [quantity |-> loc[p].quantity, reserved |-> 0,
                               min_threshold |-> loc[p].min_threshold,
                               name |-> loc[p].name]) @@ materials
       /\ initial_quantity' = (id :> loc[p].quantity) @@ initial_quantity
       /\ Return(p, Response("create", id, 0, TRUE, loc[p].quantity, Null))

\* SQLAlchemyMaterialRepository.save: the INSERT and its COMMIT; the UNIQUE
\* constraint on materials.name makes the commit raise when a row of that
\* name has been committed meanwhile, and the servicer answers INTERNAL
save(p) ==
    /\ UNCHANGED procurementVars
    /\ pc[p] = "save"
    /\ UNCHANGED <<reservations, movements, messages>>
    /\ IF get_by_name(loc[p].name) # NoRow
       THEN /\ UNCHANGED <<materials, initial_quantity>>
            /\ Return(p, Response("create", Null, 0, FALSE, 0, "INTERNAL"))
       ELSE LET id == material_uuid4 IN
            /\ materials' = (id :> [quantity |-> loc[p].quantity,
                                    reserved |-> 0,
                                    min_threshold |-> loc[p].min_threshold,
                                    name |-> loc[p].name]) @@ materials
            /\ initial_quantity' = (id :> loc[p].quantity) @@ initial_quantity
            /\ Return(p, Response("create", id, 0, TRUE, loc[p].quantity, Null))

\* ------------------------------------------------------------ getMaterial call
\* _material_to_dto: the stored columns and the two derived properties
material_to_dto(material_id, m) ==
    [op |-> "get", material_id |-> material_id, success |-> TRUE,
     error |-> Null, quantity |-> m.quantity, reserved |-> m.reserved,
     available |-> available(m), min_threshold |-> m.min_threshold,
     is_low_stock |-> is_low_stock(m)]

\* GetMaterialUseCase.execute: one SELECT, None for an unknown id
GetMaterialUseCase_execute(p, material_id) ==
    /\ UNCHANGED <<procurementVars, initial_quantity>>
    /\ pc[p] = "idle"
    /\ UNCHANGED <<materials, reservations, movements, messages>>
    /\ IF get_by_id(material_id) = NoRow
       THEN Return(p, Response("get", material_id, 0, FALSE, 0, "NOT_FOUND"))
       ELSE Return(p, material_to_dto(material_id, get_by_id(material_id)))

\* ---------------------------------------------------------- updateMaterial call
\* UpdateMaterialUseCase.execute up to its second await: get_by_id hands back
\* an entity, a copy of the row as it is now, and the fields the request
\* carries are set on it. min_threshold 0 is "not given" (the servicer turns
\* it into None) and leaves the entity's threshold as read
UpdateMaterialUseCase_execute(p, material_id, min_threshold) ==
    /\ UNCHANGED <<procurementVars, initial_quantity>>
    /\ pc[p] = "idle"
    /\ UNCHANGED <<materials, reservations, movements, messages>>
    /\ LET material == get_by_id(material_id) IN
       IF material = NoRow
       THEN Return(p, Response("update", material_id, 0, FALSE, 0,
                 "NOT_FOUND"))
       ELSE Goto(p, "update_select",
                 [material_id |-> material_id,
                  quantity |-> material.quantity,
                  reserved |-> material.reserved,
                  min_threshold |-> IF min_threshold # 0 THEN min_threshold
                                    ELSE material.min_threshold,
                  model_quantity |-> 0, model_reserved |-> 0,
                  model_min_threshold |-> 0])

\* SQLAlchemyMaterialRepository.update, lines 122-127: its own SELECT of the
\* row, ValueError when it is gone
update_select(p) ==
    /\ UNCHANGED <<procurementVars, initial_quantity>>
    /\ pc[p] = "update_select"
    /\ UNCHANGED <<materials, reservations, movements, messages>>
    /\ LET model == get_by_id(loc[p].material_id) IN
       IF model = NoRow
       THEN Return(p, Response("update", loc[p].material_id, 0, FALSE, 0,
                 "INTERNAL"))
       ELSE Goto(p, "update_commit",
                 [loc[p] EXCEPT !.model_quantity = model.quantity,
                                !.model_reserved = model.reserved,
                                !.model_min_threshold = model.min_threshold])

\* update, lines 129-137: quantity, reserved and min_threshold are assigned
\* from the entity; the COMMIT's UPDATE carries each column whose assigned
\* value differs from the one update's SELECT loaded
update_commit(p) ==
    /\ UNCHANGED <<procurementVars, initial_quantity>>
    /\ pc[p] = "update_commit"
    /\ UNCHANGED <<reservations, movements, messages>>
    /\ LET l == loc[p] IN
       /\ materials' =
            [materials EXCEPT ![l.material_id] =
               [@ EXCEPT
                  !.quantity = IF l.quantity # l.model_quantity
                               THEN l.quantity ELSE @,
                  !.reserved = IF l.reserved # l.model_reserved
                               THEN l.reserved ELSE @,
                  !.min_threshold = IF l.min_threshold # l.model_min_threshold
                                    THEN l.min_threshold ELSE @]]
       /\ Goto(p, "update_refresh", l)

\* update, lines 138-139: session.refresh re-reads the row, and the use case
\* returns it as a MaterialDTO
update_refresh(p) ==
    /\ UNCHANGED <<procurementVars, initial_quantity>>
    /\ pc[p] = "update_refresh"
    /\ UNCHANGED <<materials, reservations, movements, messages>>
    /\ Return(p, [material_to_dto(loc[p].material_id,
                                  get_by_id(loc[p].material_id))
                     EXCEPT !.op = "update"])

\* ------------------------------------------------------------ getLowStock call
\* get_low_stock, lines 106-110: the WHERE clause of its one SELECT
LowStockRowMatches(row) == row.quantity - row.reserved < row.min_threshold

\* GetLowStockMaterialsUseCase.execute: the rows the SELECT returns
get_low_stock(p) ==
    /\ UNCHANGED <<procurementVars, initial_quantity>>
    /\ pc[p] = "idle"
    /\ UNCHANGED <<materials, reservations, movements, messages>>
    /\ Return(p, [op |-> "low_stock", success |-> TRUE, error |-> Null,
                  materials |-> {m \in DOMAIN materials :
                                    LowStockRowMatches(materials[m])}])

\* -------------------------------------------- SQLAlchemyReservationRepository
update_status(p, reservation_id, status) ==
    /\ UNCHANGED <<procurementVars, initial_quantity>>
    /\ pc[p] = "idle"
    /\ UNCHANGED <<materials, movements, messages>>
    /\ IF reservation_id \notin DOMAIN reservations
       THEN /\ UNCHANGED reservations
            /\ Return(p, Response("update_status", Null, reservation_id, FALSE,
                 0, "not found"))
       ELSE /\ reservations' =
                 [reservations EXCEPT ![reservation_id].status = status]
            /\ Return(p, Response("update_status", Null, reservation_id, TRUE,
                 reservation_id, Null))

cancel_reservation(p, reservation_id) ==
    update_status(p, reservation_id, "CANCELLED")

\* ======================================================= procurement-service
MaxOrders == 2
MaxShortage == 2
MaxListed == 2
MaxSelectable == 3

OrderStatus == {"PENDING", "ORDERED", "DELIVERED", "CANCELLED"}
NewStatuses == OrderStatus \cup {"SHIPPED"}
ShortageMaterialIds == {"m1", "m3"}
ShortageQuantities == 1..MaxShortage
TriggeringRequestIds == {Null, "req1"}

\* str(uuid.uuid4()): the n-th identifier the order use cases draw
uuid4(n) == "order-" \o ToString(n)
OrderIds == {uuid4(n) : n \in 0..MaxOrders}

\* the supplier directory; ratings in tenths, so 45 is the rating 4.5
AllSuppliers ==
    { [id |-> "s1", name |-> "Supplier 1", rating |-> 45, is_active |-> TRUE],
      [id |-> "s2", name |-> "Supplier 2", rating |-> 48, is_active |-> TRUE],
      [id |-> "s3", name |-> "Supplier 3", rating |-> 48, is_active |-> TRUE],
      [id |-> "s4", name |-> "Supplier 4", rating |-> 50, is_active |-> FALSE],
      [id |-> "s5", name |-> "Supplier 5", rating |-> 50, is_active |-> TRUE] }

\* SupplierRepository.get_for_material returns a list: any suppliers of the
\* directory, in any order
SupplierListsUpTo(longest) ==
    UNION { {l \in [1..n -> AllSuppliers] :
                \A i, j \in 1..n : i # j => l[i] # l[j]} :
            n \in 0..longest }

SupplierLists == SupplierListsUpTo(MaxListed)

\* the replies the selector is examined on
SelectableLists == SupplierListsUpTo(MaxSelectable)

\* SupplierRepository.get_materials: the offers (SupplierMaterial) of a supplier
get_materials(supplier_id) ==
    CASE supplier_id = "s1" ->
           << [material_id |-> "m2", unit_price |-> 7],
              [material_id |-> "m1", unit_price |-> 120] >>
      [] supplier_id = "s2" -> << [material_id |-> "m1", unit_price |-> 130] >>
      [] supplier_id = "s3" -> << [material_id |-> "m1", unit_price |-> 125] >>
      [] supplier_id = "s4" ->
           << [material_id |-> "m1", unit_price |-> 100],
              [material_id |-> "m3", unit_price |-> 80] >>
      [] OTHER -> << [material_id |-> "m2", unit_price |-> 9] >>

\* what SupplierAdapter.place_order can hand back
Confirmations ==
    [status : {"CONFIRMED", "ACCEPTED", "SUCCESS"},
     external_order_id : {"EXT-1"},
     estimated_delivery : {Null, "eta"},
     error_message : {Null}]
    \cup
    [status : {"FAILED", "REJECTED"},
     external_order_id : {""},
     estimated_delivery : {Null},
     error_message : {Null, "supplier error"}]

NoOrder == [id |-> Null]

NoShortageResult ==
    [outcome |-> "none", success |-> FALSE, order_id |-> Null,
     message |-> <<>>, supplier_name |-> Null, estimated_cost |-> Null]

NoStatusResult == [outcome |-> "none", status |-> Null]

\* ------------------------------------------------------ procurement entities
\* OrderConfirmation.is_success
is_success(conf) ==
    conf.status \in {"CONFIRMED", "ACCEPTED", "SUCCESS"}

\* an order constructed already ORDERED
PurchaseOrderAlreadyOrdered(id, material_id, supplier, quantity, unit_price, request_id) ==
    [id |-> id, material_id |-> material_id, supplier_id |-> supplier.id,
     supplier_name |-> supplier.name, quantity |-> quantity,
     unit_price |-> unit_price, total_price |-> 0, status |-> "ORDERED",
     external_order_id |-> Null, triggered_by_request_id |-> request_id,
     expected_delivery |-> Null]

\* PurchaseOrder(...) as the use case constructs it, defaults filled in
PurchaseOrder(id, material_id, supplier, quantity, unit_price, request_id) ==
    [id |-> id, material_id |-> material_id, supplier_id |-> supplier.id,
     supplier_name |-> supplier.name, quantity |-> quantity,
     unit_price |-> unit_price, total_price |-> 0, status |-> "PENDING",
     external_order_id |-> Null, triggered_by_request_id |-> request_id,
     expected_delivery |-> Null]

\* the total taken to be the price of one unit
calculate_total_of_one(order) ==
    [order EXCEPT !.total_price = order.unit_price]

calculate_total(order) ==
    [order EXCEPT !.total_price = order.unit_price * order.quantity]

mark_as_ordered(order, external_order_id, expected_delivery) ==
    [order EXCEPT !.status = "ORDERED",
                  !.external_order_id = external_order_id,
                  !.expected_delivery = expected_delivery]

mark_as_delivered(order) == [order EXCEPT !.status = "DELIVERED"]

cancel(order) == [order EXCEPT !.status = "CANCELLED"]

\* ---------------------------------------------------------- SupplierSelector
NoOffer == [material_id |-> Null]

\* the first offer of the supplier, whatever its material
material_info_of_any(offers, material_id) ==
    IF offers = <<>> THEN NoOffer ELSE offers[1]

\* next((m for m in materials if m.material_id == material_id), None)
material_info(offers, material_id) ==
    LET hits == {i \in 1..Len(offers) : offers[i].material_id = material_id} IN
    IF hits = {} THEN NoOffer
    ELSE offers[CHOOSE i \in hits : \A j \in hits : i <= j]

\* the candidates list after the loop: active suppliers with an offer, in
\* the order of the suppliers list
RECURSIVE candidates(_, _, _)
candidates(material_id, suppliers, supplier_materials) ==
    IF suppliers = <<>> THEN <<>>
    ELSE LET supplier == Head(suppliers)
             offers == IF supplier.id \in DOMAIN supplier_materials
                       THEN supplier_materials[supplier.id] ELSE <<>>
             info == material_info(offers, material_id)
             rest == candidates(material_id, Tail(suppliers),
                                supplier_materials) IN
         IF supplier.is_active /\ info # NoOffer
         THEN <<[supplier |-> supplier, offer |-> info]>> \o rest
         ELSE rest

\* the sort key without its second component
KeyBeforeByRatingOnly(a, b) ==
    (0 - a.supplier.rating) < (0 - b.supplier.rating)

\* the sort key (-rating, unit_price), compared as Python compares tuples
KeyBefore(a, b) ==
    \/ (0 - a.supplier.rating) < (0 - b.supplier.rating)
    \/ /\ a.supplier.rating = b.supplier.rating
       /\ a.offer.unit_price < b.offer.unit_price

NoSelection == [supplier |-> Null]

\* candidates.sort(key) is stable: element 0 afterwards is the earliest
\* candidate that no other candidate's key precedes
select_best_supplier(material_id, suppliers, supplier_materials) ==
    LET c == candidates(material_id, suppliers, supplier_materials) IN
    IF c = <<>> THEN NoSelection
    ELSE c[CHOOSE i \in 1..Len(c) :
              /\ \A j \in 1..Len(c) : ~KeyBefore(c[j], c[i])
              /\ \A j \in 1..(i - 1) : KeyBefore(c[i], c[j])]

\* ------------------------------------------------- ProcessShortageUseCase
\* the confirmation's estimated_delivery taken as it comes
expected_delivery_or_none(conf) == conf.estimated_delivery

\* confirmation.estimated_delivery or datetime.utcnow()
expected_delivery_of(conf) ==
    IF conf.estimated_delivery = Null THEN "utcnow"
    ELSE conf.estimated_delivery

\* the unconfirmed order saved as it was created
rejected_status_pending(order) == order

\* order.status = OrderStatus.CANCELLED when the supplier does not confirm
rejected_status(order) == [order EXCEPT !.status = "CANCELLED"]

\* execute, steps 1-4: directory lookup, selection, the PENDING order; the
\* call then awaits supplier_adapter.place_order. suppliers is the list
\* supplier_repo.get_for_material handed back
ProcessShortageUseCase_execute(material_id, shortage_quantity, request_id, suppliers) ==
    /\ psPc = "idle"
    /\ orderSeq < MaxOrders
    /\ UNCHANGED <<ledgerVars, orders, statusResult, inventory_client>>
    /\   LET supplier_materials ==
                 [id \in {suppliers[i].id : i \in 1..Len(suppliers)} |->
                     get_materials(id)]
             selection == select_best_supplier(material_id, suppliers,
                                               supplier_materials) IN
         IF suppliers = <<>>
         THEN /\ shortageResult' =
                   [NoShortageResult EXCEPT
                       !.outcome = "returned",
                       !.message = <<"No suppliers found for material">>]
              /\ UNCHANGED <<psPc, psOrder, orderSeq>>
         ELSE IF selection = NoSelection
         THEN /\ shortageResult' =
                   [NoShortageResult EXCEPT
                       !.outcome = "returned",
                       !.message = <<"No active supplier can provide">>]
              /\ UNCHANGED <<psPc, psOrder, orderSeq>>
         ELSE /\ psOrder' = calculate_total(
                   PurchaseOrder(uuid4(orderSeq + 1), material_id,
                                 selection.supplier, shortage_quantity,
                                 selection.offer.unit_price, request_id))
              /\ orderSeq' = orderSeq + 1
              /\ psPc' = "placing"
              /\ UNCHANGED shortageResult

\* the answer to place_order handled with a retry: an order the supplier did
\* not confirm is saved CANCELLED and placed again under a new id
place_order_returns_retrying(conf) ==
    /\ psPc = "placing"
    /\ UNCHANGED <<ledgerVars, statusResult, inventory_client>>
    /\ IF ~is_success(conf)
       THEN LET order == rejected_status(psOrder) IN
            /\ orders' = (order.id :> order) @@ orders
            /\ psPc' = "placing"
            /\ orderSeq' = orderSeq + 1
            /\ psOrder' = [psOrder EXCEPT !.id = uuid4(orderSeq + 1)]
            /\ UNCHANGED shortageResult
       ELSE LET order == mark_as_ordered(psOrder, conf.external_order_id,
                                         expected_delivery_of(conf)) IN
            /\ orders' = (order.id :> order) @@ orders
            /\ psPc' = "idle"
            /\ psOrder' = NoOrder
            /\ UNCHANGED orderSeq
            /\ shortageResult' =
                 [outcome |-> "returned", success |-> TRUE,
                  order_id |-> order.id,
                  message |-> <<"Order placed with", order.supplier_name>>,
                  supplier_name |-> order.supplier_name,
                  estimated_cost |-> order.total_price]

\* execute, steps 5-7: place_order returned a confirmation
place_order_returns(conf) ==
    /\ psPc = "placing"
    /\ psPc' = "idle"
    /\ psOrder' = NoOrder
    /\ UNCHANGED <<ledgerVars, orderSeq, statusResult, inventory_client>>
    /\ IF ~is_success(conf)
       THEN LET order == rejected_status(psOrder) IN
            /\ orders' = (order.id :> order) @@ orders
            /\ shortageResult' =
                 [outcome |-> "returned", success |-> FALSE,
                  order_id |-> order.id,
                  message |-> <<"Supplier rejected order", conf.error_message>>,
                  supplier_name |-> order.supplier_name,
                  estimated_cost |-> Null]
       ELSE LET order == mark_as_ordered(psOrder, conf.external_order_id,
                                         expected_delivery_of(conf)) IN
            /\ orders' = (order.id :> order) @@ orders
            /\ shortageResult' =
                 [outcome |-> "returned", success |-> TRUE,
                  order_id |-> order.id,
                  message |-> <<"Order placed with", order.supplier_name>>,
                  supplier_name |-> order.supplier_name,
                  estimated_cost |-> order.total_price]

\* execute, step 5: place_order raised; nothing catches it, the exception
\* leaves execute before any order_repo.save
place_order_raises ==
    /\ psPc = "placing"
    /\ psPc' = "idle"
    /\ psOrder' = NoOrder
    /\ shortageResult' = [NoShortageResult EXCEPT !.outcome = "raised"]
    /\ UNCHANGED <<ledgerVars, orders, orderSeq, statusResult,
                   inventory_client>>

\* ------------------------------------------------- UpdateOrderStatusUseCase
\* the delivery fed to the ledger on every call: the order quantity is added
\* and a PURCHASE movement referencing the order is written
update_inventory_adjusting(order) ==
    /\ materials' =
         IF order.material_id \in DOMAIN materials
         THEN [materials EXCEPT ![order.material_id].quantity =
                                    @ + order.quantity]
         ELSE materials
    /\ movements' = Append(movements,
         StockMovementModel(order.material_id, order.quantity, "PURCHASE",
                            order.id))

\* _update_inventory: its body is `pass`
update_inventory(order) == UNCHANGED <<materials, movements>>

UpdateOrderStatusUseCase_execute(order_id, new_status) ==
    /\ UNCHANGED <<reservations, pc, loc, result, messages,
                   initial_quantity, orderSeq, psPc, psOrder,
                   shortageResult, inventory_client>>
    /\ IF order_id \notin DOMAIN orders
       THEN /\ statusResult' = [NoStatusResult EXCEPT !.outcome = "not found"]
            /\ UNCHANGED <<orders, materials, movements>>
       ELSE LET order == orders[order_id] IN
            IF new_status = "DELIVERED"
            THEN /\ IF inventory_client
                    THEN update_inventory(mark_as_delivered(order))
                    ELSE UNCHANGED <<materials, movements>>
                 /\ orders' = [orders EXCEPT
                                  ![order_id] = mark_as_delivered(order)]
                 /\ statusResult' = [outcome |-> "returned", status |-> "DELIVERED"]
            ELSE IF new_status = "CANCELLED"
            THEN /\ orders' = [orders EXCEPT ![order_id] = cancel(order)]
                 /\ statusResult' = [outcome |-> "returned", status |-> "CANCELLED"]
                 /\ UNCHANGED <<materials, movements>>
            ELSE IF new_status \in OrderStatus
            THEN /\ orders' = [orders EXCEPT ![order_id].status = new_status]
                 /\ statusResult' = [outcome |-> "returned", status |-> new_status]
                 /\ UNCHANGED <<materials, movements>>
            ELSE /\ statusResult' =
                      [NoStatusResult EXCEPT !.outcome = "raised"]
                 /\ UNCHANGED <<orders, materials, movements>>

\* ------------------------------------------------------------ specification
InitLedger ==
    /\ materials \in [StoredMaterialIds ->
                        [quantity : 1..MaxQuantity, reserved : {0},
                         min_threshold : {1}]]
    /\ reservations = <<>>
    /\ movements = <<>>
    /\ pc = [p \in Callers |-> "idle"]
    /\ loc = [p \in Callers |-> NoLocal]
    /\ result = NoResult
    /\ messages = <<>>
    /\ initial_quantity = [m \in DOMAIN materials |-> materials[m].quantity]

InitProcurement ==
    /\ orders = << >>
    /\ orderSeq = 0
    /\ psPc = "idle"
    /\ psOrder = NoOrder
    /\ shortageResult = NoShortageResult
    /\ statusResult = NoStatusResult
    /\ inventory_client \in BOOLEAN

Init == InitLedger /\ InitProcurement

Reserve ==
    \/ \E p \in Callers, m \in MaterialIds, q \in ReserveQuantities,
          r \in RequestIds : ReserveMaterialUseCase_execute(p, m, q, r)
    \/ \E p \in Callers : reserve_select(p)
    \/ \E p \in Callers : reserve_commit(p)

Release ==
    \/ \E p \in Callers, rid \in ReservationIds :
          release_select_reservation(p, rid)
    \/ \E p \in Callers : release_select_material(p)
    \/ \E p \in Callers : release_commit(p)

Adjust ==
    \/ \E p \in Callers, m \in MaterialIds, d \in Deltas,
          rs \in StockUpdateReason, ref \in ReferenceIds :
          /\ Len(movements) + InFlight("update_quantity_commit") < MaxMovements
          /\ update_quantity_select(p, m, d, rs, ref)
    \/ \E p \in Callers : update_quantity_commit(p)
    \/ \E p \in Callers : update_quantity_refresh(p)
    \/ \E p \in Callers, outcome \in PublishOutcomes :
          update_stock_publish(p, outcome)

ReservationStatus ==
    \/ \E p \in Callers, rid \in ReservationIds, st \in ReservationStatuses :
          update_status(p, rid, st)
    \/ \E p \in Callers, rid \in ReservationIds : cancel_reservation(p, rid)

Next == Reserve \/ Release \/ Adjust \/ ReservationStatus

Spec == Init /\ [][Next]_vars

\* CheckAvailability calls; the broker's queue is kept within MaxMessages
Check ==
    \/ \E p \in Callers, m \in MaterialIds, q \in RequestedQuantities,
          r \in CheckRequestIds :
          /\ Len(messages) + InFlight("check_publish") < MaxMessages
          /\ CheckAvailabilityUseCase_execute(p, m, q, r)
    \/ \E p \in Callers, outcome \in PublishOutcomes :
          check_publish(p, outcome)

\* UpdateStock calls, up to MaxAdjustments of them
AdjustRepeatedly ==
    \/ \E p \in Callers, m \in MaterialIds, d \in Deltas,
          rs \in StockUpdateReason, ref \in ReferenceIds :
          /\ Len(movements) + InFlight("update_quantity_commit")
               < MaxAdjustments
          /\ update_quantity_select(p, m, d, rs, ref)
    \/ \E p \in Callers : update_quantity_commit(p)
    \/ \E p \in Callers : update_quantity_refresh(p)
    \/ \E p \in Callers, outcome \in PublishOutcomes :
          update_stock_publish(p, outcome)

\* availability checks while reserve calls move the available quantity
NextChecks == Check \/ Reserve

SpecChecks == Init /\ [][NextChecks]_vars

\* stock adjustments alone, from any callers
SpecStock == Init /\ [][AdjustRepeatedly]_vars

\* one caller alone: every call returns before the next one starts
Solo == {p \in Callers : \A o \in Callers : p <= o}

NextInTurn ==
    \/ \E p \in Solo, m \in MaterialIds, q \in ReserveQuantities,
          r \in RequestIds : ReserveMaterialUseCase_execute(p, m, q, r)
    \/ \E p \in Solo : reserve_select(p)
    \/ \E p \in Solo : reserve_commit(p)
    \/ \E p \in Solo, rid \in ReservationIds :
          release_select_reservation(p, rid)
    \/ \E p \in Solo : release_select_material(p)
    \/ \E p \in Solo : release_commit(p)
    \/ \E p \in Solo, m \in MaterialIds, d \in Deltas,
          rs \in StockUpdateReason, ref \in GivenReferenceIds :
          /\ Len(movements) < MaxAdjustments
          /\ update_quantity_select(p, m, d, rs, ref)
    \/ \E p \in Solo : update_quantity_commit(p)
    \/ \E p \in Solo : update_quantity_refresh(p)
    \/ \E p \in Solo, outcome \in PublishOutcomes :
          update_stock_publish(p, outcome)

SpecInTurn == Init /\ [][NextInTurn]_vars

\* materials as CreateMaterial stores them: min_threshold is whatever the
\* request carried, 0 included
InitThresholds ==
    /\ materials \in [StoredMaterialIds ->
                        [quantity : 1..MaxQuantity, reserved : {0},
                         min_threshold : 0..MaxThreshold]]
    /\ reservations = <<>>
    /\ movements = <<>>
    /\ pc = [p \in Callers |-> "idle"]
    /\ loc = [p \in Callers |-> NoLocal]
    /\ result = NoResult
    /\ messages = <<>>
    /\ initial_quantity = [m \in DOMAIN materials |-> materials[m].quantity]
    /\ InitProcurement

\* one caller reserving, adjusting and asking for the low-stock list
NextLowStock ==
    \/ \E p \in Solo, m \in MaterialIds, q \in ReserveQuantities,
          r \in RequestIds : ReserveMaterialUseCase_execute(p, m, q, r)
    \/ \E p \in Solo : reserve_select(p)
    \/ \E p \in Solo : reserve_commit(p)
    \/ \E p \in Solo, m \in MaterialIds, d \in Deltas,
          rs \in StockUpdateReason, ref \in ReferenceIds :
          /\ Len(movements) < MaxAdjustments
          /\ update_quantity_select(p, m, d, rs, ref)
    \/ \E p \in Solo : update_quantity_commit(p)
    \/ \E p \in Solo : update_quantity_refresh(p)
    \/ \E p \in Solo, outcome \in PublishOutcomes :
          update_stock_publish(p, outcome)
    \/ \E p \in Solo : get_low_stock(p)

SpecLowStock == InitThresholds /\ [][NextLowStock]_vars

\* a material row of three-digit stock: 100 in the warehouse, 90 of them
\* reserved, low below 20
ExampleMaterial == [quantity |-> 100, reserved |-> 90, min_threshold |-> 20]

\* any row the ledger can hold: reserved may exceed quantity once stock has
\* been adjusted down under a reservation
InitAnyRow ==
    /\ materials \in [StoredMaterialIds ->
                        [quantity : 0..MaxQuantity,
                         reserved : 0..(MaxQuantity + 1),
                         min_threshold : 0..(MaxThreshold + 1)]
                        \cup {ExampleMaterial}]
    /\ reservations = <<>>
    /\ movements = <<>>
    /\ pc = [p \in Callers |-> "idle"]
    /\ loc = [p \in Callers |-> NoLocal]
    /\ result = NoResult
    /\ messages = <<>>
    /\ initial_quantity = [m \in DOMAIN materials |-> materials[m].quantity]
    /\ InitProcurement

\* GetMaterial for any id
NextGetMaterial ==
    \E p \in Solo, m \in MaterialIds : GetMaterialUseCase_execute(p, m)

SpecGetMaterial == InitAnyRow /\ [][NextGetMaterial]_vars

\* the catalogue as seeded: one material, its name taken
InitCatalogue ==
    /\ materials = [m \in StoredMaterialIds |->
                      [quantity |-> 1, reserved |-> 0, min_threshold |-> 1,
                       name |-> "cement"]]
    /\ reservations = <<>>
    /\ movements = <<>>
    /\ pc = [p \in Callers |-> "idle"]
    /\ loc = [p \in Callers |-> NoLocal]
    /\ result = NoResult
    /\ messages = <<>>
    /\ initial_quantity = [m \in DOMAIN materials |-> materials[m].quantity]
    /\ InitProcurement

\* CreateMaterial calls from any callers, their two awaits interleaving
NextCreate ==
    \/ \E p \in Callers, name \in MaterialNames, q \in 0..MaxQuantity,
          t \in 0..MaxThreshold :
          CreateMaterialUseCase_execute(p, name, q, t)
    \/ \E p \in Callers : save(p)

SpecCreate == InitCatalogue /\ [][NextCreate]_vars

\* one caller updating a material's metadata while the other callers reserve,
\* release and adjust
InitFullStock ==
    /\ materials \in [StoredMaterialIds ->
                        [quantity : {MaxQuantity}, reserved : {0},
                         min_threshold : {MaxThreshold}]]
    /\ reservations = <<>>
    /\ movements = <<>>
    /\ pc = [p \in Callers |-> "idle"]
    /\ loc = [p \in Callers |-> NoLocal]
    /\ result = NoResult
    /\ messages = <<>>
    /\ initial_quantity = [m \in DOMAIN materials |-> materials[m].quantity]
    /\ InitProcurement

NextUpdateMaterial ==
    \/ \E p \in Solo, m \in MaterialIds, t \in {0, MaxThreshold + 1} :
          UpdateMaterialUseCase_execute(p, m, t)
    \/ \E p \in Solo : update_select(p)
    \/ \E p \in Solo : update_commit(p)
    \/ \E p \in Solo : update_refresh(p)
    \/ \E p \in Callers \ Solo, m \in MaterialIds, q \in ReserveQuantities,
          r \in RequestIds :
          /\ Len(reservations) < MaxReservations - 1
          /\ ReserveMaterialUseCase_execute(p, m, q, r)
    \/ \E p \in Callers \ Solo : reserve_select(p)
    \/ \E p \in Callers \ Solo : reserve_commit(p)
    \/ \E p \in Callers \ Solo, rid \in ReservationIds :
          release_select_reservation(p, rid)
    \/ \E p \in Callers \ Solo : release_select_material(p)
    \/ \E p \in Callers \ Solo : release_commit(p)
    \/ \E p \in Callers \ Solo, m \in MaterialIds, d \in Deltas,
          rs \in StockUpdateReason, ref \in ReferenceIds :
          /\ Len(movements) < MaxMovements
          /\ update_quantity_select(p, m, d, rs, ref)
    \/ \E p \in Callers \ Solo : update_quantity_commit(p)
    \/ \E p \in Callers \ Solo : update_quantity_refresh(p)
    \/ \E p \in Callers \ Solo, outcome \in PublishOutcomes :
          update_stock_publish(p, outcome)

SpecUpdateMaterial == InitFullStock /\ [][NextUpdateMaterial]_vars

\* ReserveMaterialRequest.quantity is an int32 that nothing validates: zero
\* and negative quantities reach the use case like any other
AnyReserveQuantities == (0 - MaxQuantity)..MaxQuantity

\* one caller reserving any quantity, one call after the other
NextAnyQuantity ==
    \/ \E p \in Solo, m \in MaterialIds, q \in AnyReserveQuantities,
          r \in RequestIds : ReserveMaterialUseCase_execute(p, m, q, r)
    \/ \E p \in Solo : reserve_select(p)
    \/ \E p \in Solo : reserve_commit(p)

SpecAnyQuantity == InitThresholds /\ [][NextAnyQuantity]_vars

\* one caller reserving any quantity and releasing reservations, one call
\* after the other
NextReserveRelease ==
    \/ \E p \in Solo, m \in MaterialIds, q \in AnyReserveQuantities,
          r \in RequestIds : ReserveMaterialUseCase_execute(p, m, q, r)
    \/ \E p \in Solo : reserve_select(p)
    \/ \E p \in Solo : reserve_commit(p)
    \/ \E p \in Solo, rid \in ReservationIds :
          release_select_reservation(p, rid)
    \/ \E p \in Solo : release_select_material(p)
    \/ \E p \in Solo : release_commit(p)

SpecReserveRelease == InitThresholds /\ [][NextReserveRelease]_vars

\* a ledger of two materials, and calls from any callers on either of them
TwoMaterialIds == {"m1", "m2"}

InitTwoMaterials ==
    /\ materials \in [TwoMaterialIds ->
                        [quantity : {MaxQuantity - 1},
                         reserved : {0}, min_threshold : {1}]]
    /\ reservations = <<>>
    /\ movements = <<>>
    /\ pc = [p \in Callers |-> "idle"]
    /\ loc = [p \in Callers |-> NoLocal]
    /\ result = NoResult
    /\ messages = <<>>
    /\ initial_quantity = [m \in DOMAIN materials |-> materials[m].quantity]
    /\ InitProcurement

NextTwoMaterials ==
    \/ \E p \in Callers, m \in TwoMaterialIds, q \in ReserveQuantities,
          r \in RequestIds : ReserveMaterialUseCase_execute(p, m, q, r)
    \/ \E p \in Callers : reserve_select(p)
    \/ \E p \in Callers : reserve_commit(p)
    \/ \E p \in Callers, rid \in ReservationIds :
          release_select_reservation(p, rid)
    \/ \E p \in Callers : release_select_material(p)
    \/ \E p \in Callers : release_commit(p)
    \/ \E p \in Callers, m \in TwoMaterialIds, d \in Deltas,
          rs \in StockUpdateReason, ref \in ReferenceIds :
          /\ Len(movements) + InFlight("update_quantity_commit") < MaxMovements
          /\ update_quantity_select(p, m, d, rs, ref)
    \/ \E p \in Callers : update_quantity_commit(p)
    \/ \E p \in Callers : update_quantity_refresh(p)
    \/ \E p \in Callers, outcome \in PublishOutcomes :
          update_stock_publish(p, outcome)

SpecTwoMaterials == InitTwoMaterials /\ [][NextTwoMaterials]_vars

\* N concurrent reserve calls against one material, nothing else running
SpecRace == Init /\ [][Reserve]_vars

\* the procurement saga: shortage processing and order status updates
ProcessShortage ==
    \/ \E m \in ShortageMaterialIds, q \in ShortageQuantities,
          r \in TriggeringRequestIds, suppliers \in SupplierLists :
          ProcessShortageUseCase_execute(m, q, r, suppliers)
    \/ \E conf \in Confirmations : place_order_returns(conf)
    \/ place_order_raises

UpdateOrderStatus ==
    \E id \in OrderIds, st \in NewStatuses :
        UpdateOrderStatusUseCase_execute(id, st)

NextOrders == ProcessShortage \/ UpdateOrderStatus

\* the saga starts against a seeded ledger
InitOrders == Init /\ \A m \in DOMAIN materials : materials[m].quantity = 1

SpecOrders == InitOrders /\ [][NextOrders]_vars

\* the first shortage event alone: it arrives with any directory reply, and
\* its placement is answered
FirstShortage ==
    \/ \E m \in ShortageMaterialIds, q \in ShortageQuantities,
          r \in TriggeringRequestIds, suppliers \in SelectableLists :
          /\ orderSeq = 0
          /\ shortageResult = NoShortageResult
          /\ ProcessShortageUseCase_execute(m, q, r, suppliers)
    \/ \E conf \in Confirmations : place_order_returns(conf)
    \/ place_order_raises

SpecFirstShortage == InitOrders /\ [][FirstShortage]_vars

\* at-least-once delivery: the channel hands the same shortage event to
\* processShortage again and again
RedeliveredEvent ==
    [material_id |-> "m1", shortage_quantity |-> MaxShortage,
     triggered_by_request_id |-> "req1"]

Redelivery ==
    \/ \E suppliers \in SupplierLists :
          ProcessShortageUseCase_execute(
              RedeliveredEvent.material_id,
              RedeliveredEvent.shortage_quantity,
              RedeliveredEvent.triggered_by_request_id, suppliers)
    \/ \E conf \in Confirmations : place_order_returns(conf)
    \/ place_order_raises

SpecRedelivery == InitOrders /\ [][Redelivery]_vars

\* the shortage flow end to end, as the services are wired: availability checks
\* publish to the exchange; processShortage runs when something calls it, and
\* nothing subscribes to the exchange to do so
NextChannel ==
    \/ \E p \in Solo, m \in MaterialIds, q \in RequestedQuantities,
          r \in CheckRequestIds :
          /\ Len(messages) < MaxMessages
          /\ CheckAvailabilityUseCase_execute(p, m, q, r)
    \/ \E p \in Solo, outcome \in PublishOutcomes : check_publish(p, outcome)
    \/ FirstShortage

\* an awaited publish and an awaited place_order come back
ChannelFairness ==
    /\ WF_vars(\E p \in Solo, outcome \in PublishOutcomes :
                  check_publish(p, outcome))
    /\ WF_vars(\/ \E conf \in Confirmations : place_order_returns(conf)
               \/ place_order_raises)

SpecChannel == InitOrders /\ [][NextChannel]_vars /\ ChannelFairness

\* ------------------------------------------------------------------ claims
\* C1: no oversell under race. With nothing but reserve calls running against
\* a material that starts with available = quantity, the quantities of the
\* reservations that succeeded never add up to more than that quantity.
NoOversell ==
    \A m \in DOMAIN materials : ActiveReserved(m) <= materials[m].quantity

\* C2: in every reachable state every material has 0 <= reserved <= quantity.
ReservedWithinQuantity ==
    \A m \in DOMAIN materials :
        /\ 0 <= materials[m].reserved
        /\ materials[m].reserved <= materials[m].quantity

\* C3: in every reachable state a material's reserved equals the sum of the
\* quantities of its ACTIVE reservations.
ReservedEqualsActive ==
    \A m \in DOMAIN materials : materials[m].reserved = ActiveReserved(m)

\* C7: a release call that finds its reservation already CANCELLED returns
\* the error response and writes nothing: the material and the reservation
\* stay as the first release left them.
ReleaseOfCancelledIsRejected ==
    [][\A p \in Callers, rid \in ReservationIds :
          ( /\ rid \in DOMAIN reservations
            /\ reservations[rid].status = "CANCELLED"
            /\ release_select_reservation(p, rid) )
          => ( /\ materials' = materials
               /\ reservations' = reservations
               /\ movements' = movements
               /\ pc'[p] = "idle"
               /\ result'.op = "release"
               /\ result'.success = FALSE
               /\ result'.error = "Reservation not found or already released" )
      ]_vars

\* C7 witness: a reservation was released (reserved went back down) and a
\* second release of the same reservation has been answered with the error.
ReleasedTwice ==
    /\ result.op = "release"
    /\ result.success = FALSE
    /\ result.reservation_id \in DOMAIN reservations
    /\ reservations[result.reservation_id].status = "CANCELLED"
    /\ materials[reservations[result.reservation_id].material_id].reserved = 0

\* C4: an order's status changes only along PENDING -> ORDERED,
\* ORDERED -> DELIVERED, PENDING -> CANCELLED and ORDERED -> CANCELLED, so
\* DELIVERED and CANCELLED are terminal.
OrderTransitions ==
    { <<"PENDING", "ORDERED">>, <<"ORDERED", "DELIVERED">>,
      <<"PENDING", "CANCELLED">>, <<"ORDERED", "CANCELLED">> }

StatusFollowsStateMachine ==
    [][\A id \in DOMAIN orders :
          orders'[id].status # orders[id].status
          => <<orders[id].status, orders'[id].status>> \in OrderTransitions
      ]_vars

\* C5: cancel on an order that is DELIVERED or CANCELLED is answered with an
\* error and leaves the order as it was.
CancelOfTerminalIsRejected ==
    [][\A id \in OrderIds :
          ( /\ id \in DOMAIN orders
            /\ orders[id].status \in {"DELIVERED", "CANCELLED"}
            /\ UpdateOrderStatusUseCase_execute(id, "CANCELLED") )
          => ( /\ orders' = orders
               /\ statusResult'.outcome = "raised" )
      ]_vars

\* C6: marking an ORDERED order delivered sets it DELIVERED, raises the
\* material's quantity by the order quantity and appends one PURCHASE stock
\* movement that references the order.
DeliveryFeedsLedger ==
    [][\A id \in OrderIds :
          ( /\ id \in DOMAIN orders
            /\ orders[id].status = "ORDERED"
            /\ orders[id].material_id \in DOMAIN materials
            /\ UpdateOrderStatusUseCase_execute(id, "DELIVERED") )
          => ( /\ orders'[id].status = "DELIVERED"
               /\ materials'[orders[id].material_id].quantity =
                    materials[orders[id].material_id].quantity
                    + orders[id].quantity
               /\ Len(movements') = Len(movements) + 1
               /\ movements'[Len(movements')].material_id =
                    orders[id].material_id
               /\ movements'[Len(movements')].quantity_delta =
                    orders[id].quantity
               /\ movements'[Len(movements')].reason = "PURCHASE"
               /\ movements'[Len(movements')].reference_id = id )
      ]_vars

\* C8: when the port answers with a confirmation that is not a success,
\* processShortage saves the new order as CANCELLED and returns a failure
\* carrying the order id and the supplier's reason.
RejectedPlacementCancelsOrder ==
    [][\A conf \in Confirmations :
          ( /\ conf.status \notin {"CONFIRMED", "ACCEPTED", "SUCCESS"}
            /\ place_order_returns(conf) )
          => ( /\ psOrder.id \notin DOMAIN orders
               /\ DOMAIN orders' = DOMAIN orders \cup {psOrder.id}
               /\ orders'[psOrder.id].status = "CANCELLED"
               /\ orders'[psOrder.id].quantity = psOrder.quantity
               /\ orders'[psOrder.id].supplier_id = psOrder.supplier_id
               /\ shortageResult'.outcome = "returned"
               /\ shortageResult'.success = FALSE
               /\ shortageResult'.order_id = psOrder.id
               /\ shortageResult'.message =
                    <<"Supplier rejected order", conf.error_message>> )
      ]_vars

\* C8 witness: a rejected placement has been answered; its order is on record
\* as CANCELLED and the answer names it.
RejectionReported ==
    /\ shortageResult.outcome = "returned"
    /\ shortageResult.success = FALSE
    /\ shortageResult.order_id \in DOMAIN orders
    /\ orders[shortageResult.order_id].status = "CANCELLED"
    /\ shortageResult.message = <<"Supplier rejected order", "supplier error">>

\* C9: when the port confirms, processShortage adds exactly one order, in
\* status ORDERED with the confirmation's external id and a non-null expected
\* delivery, and returns success with its id, supplier name and cost.
ConfirmedPlacementOrdersOnce ==
    [][\A conf \in Confirmations :
          ( /\ conf.status \in {"CONFIRMED", "ACCEPTED", "SUCCESS"}
            /\ place_order_returns(conf) )
          => ( /\ psOrder.id \notin DOMAIN orders
               /\ DOMAIN orders' = DOMAIN orders \cup {psOrder.id}
               /\ \A o \in DOMAIN orders : orders'[o] = orders[o]
               /\ orders'[psOrder.id].status = "ORDERED"
               /\ orders'[psOrder.id].external_order_id = conf.external_order_id
               /\ orders'[psOrder.id].expected_delivery # Null
               /\ shortageResult'.outcome = "returned"
               /\ shortageResult'.success = TRUE
               /\ shortageResult'.order_id = psOrder.id
               /\ shortageResult'.supplier_name = psOrder.supplier_name
               /\ shortageResult'.estimated_cost =
                    psOrder.unit_price * psOrder.quantity )
      ]_vars

\* C9 witness: a confirmation without a delivery estimate has been processed;
\* the order is ORDERED with the external id and a delivery date all the same.
ConfirmationWithoutEstimateOrdered ==
    /\ shortageResult.outcome = "returned"
    /\ shortageResult.success = TRUE
    /\ shortageResult.order_id \in DOMAIN orders
    /\ orders[shortageResult.order_id].status = "ORDERED"
    /\ orders[shortageResult.order_id].external_order_id = "EXT-1"
    /\ orders[shortageResult.order_id].expected_delivery = "utcnow"

\* C10: when the port raises instead of answering, the attempt counts as a
\* placement failure: its order is on record and CANCELLED.
RaisedPlacementCancelsOrder ==
    [][place_order_raises
          => ( /\ psOrder.id \in DOMAIN orders'
               /\ orders'[psOrder.id].status = "CANCELLED" )
      ]_vars

\* the (supplier, offer) pairs a directory reply holds for a material: every
\* offer for the material made by a supplier of the reply that is active
ActiveOffers(material_id, suppliers) ==
    UNION { { [supplier_id |-> suppliers[i].id,
               rating |-> suppliers[i].rating,
               unit_price |-> get_materials(suppliers[i].id)[k].unit_price] :
              k \in { k \in DOMAIN get_materials(suppliers[i].id) :
                        get_materials(suppliers[i].id)[k].material_id
                            = material_id } } :
            i \in { i \in DOMAIN suppliers : suppliers[i].is_active } }

\* C11: processShortage for a material that no active supplier of the
\* directory's reply offers (an empty reply, only inactive suppliers, or
\* suppliers without an offer for it) returns a failure without an order id,
\* creates no order and does not reach the call of the placement port.
NoSupplierIsReported ==
    [][\A m \in ShortageMaterialIds, q \in ShortageQuantities,
          r \in TriggeringRequestIds, suppliers \in SelectableLists :
          ( /\ ActiveOffers(m, suppliers) = {}
            /\ ProcessShortageUseCase_execute(m, q, r, suppliers) )
          => ( /\ shortageResult'.outcome = "returned"
               /\ shortageResult'.success = FALSE
               /\ shortageResult'.order_id = Null
               /\ shortageResult'.message \in
                    { <<"No suppliers found for material">>,
                      <<"No active supplier can provide">> }
               /\ orders' = orders
               /\ orderSeq' = orderSeq
               /\ psOrder' = NoOrder
               /\ psPc' = "idle" )
      ]_vars

\* C11 witness: a shortage whose directory reply was not empty but held no
\* active supplier with an offer has been answered, and nothing was ordered.
NoActiveSupplierAnswered ==
    /\ shortageResult.outcome = "returned"
    /\ shortageResult.message = <<"No active supplier can provide">>
    /\ DOMAIN orders = {}
    /\ orderSeq = 0
    /\ psPc = "idle"

\* C12: select_best_supplier returns None exactly when the reply holds no
\* active supplier with an offer for the material; otherwise it returns such
\* a pair whose rating is the highest among them and whose unit price is the
\* lowest among those with that rating.
SelectionIsBestRatedThenCheapest ==
    [][\A m \in ShortageMaterialIds, q \in ShortageQuantities,
          r \in TriggeringRequestIds, suppliers \in SelectableLists :
          ProcessShortageUseCase_execute(m, q, r, suppliers)
          => LET selection ==
                     select_best_supplier(m, suppliers,
                         [id \in {suppliers[i].id : i \in DOMAIN suppliers}
                             |-> get_materials(id)])
                 offers == ActiveOffers(m, suppliers) IN
             /\ (selection = NoSelection) <=> (offers = {})
             /\ offers # {} =>
                  /\ [supplier_id |-> selection.supplier.id,
                      rating |-> selection.supplier.rating,
                      unit_price |-> selection.offer.unit_price] \in offers
                  /\ selection.offer.material_id = m
                  /\ \A c \in offers :
                        /\ c.rating <= selection.supplier.rating
                        /\ c.rating = selection.supplier.rating
                             => selection.offer.unit_price <= c.unit_price
      ]_vars

\* C12 witness: the order in flight went to the supplier rated 4.8 at the
\* price 125, the choice among (4.5, 120), (4.8, 130) and (4.8, 125).
BestOfThreeSelected ==
    /\ psPc = "placing"
    /\ psOrder.supplier_id = "s3"
    /\ psOrder.unit_price = 125

\* C13: a check publishes nothing when requested <= available and returns
\* straight away; when requested > available it makes exactly one publish
\* call before it returns, and the event the broker then holds has
\* shortage = requested - available and, as current quantity, the available
\* value handed to the caller.
ShortagePublishedOnce ==
    [][\A p \in Callers :
          /\ \A m \in DOMAIN materials, q \in RequestedQuantities,
                r \in CheckRequestIds :
                CheckAvailabilityUseCase_execute(p, m, q, r)
                => LET stock == materials[m].quantity - materials[m].reserved
                       free == IF stock < 0 THEN 0 ELSE stock IN
                   /\ messages' = messages
                   /\ q <= free =>
                        /\ pc'[p] = "idle"
                        /\ result'.op = "check"
                        /\ result'.success
                        /\ result'.value = free
                        /\ result'.shortage = 0
                   /\ q > free =>
                        /\ pc'[p] = "check_publish"
                        /\ loc'[p].material_id = m
                        /\ loc'[p].requested_quantity = q
                        /\ loc'[p].available_quantity = free
                        /\ loc'[p].shortage = q - free
          /\ check_publish(p, "True")
             => /\ Len(messages') = Len(messages) + 1
                /\ SubSeq(messages', 1, Len(messages)) = messages
                /\ LET event == messages'[Len(messages')] IN
                   /\ event.routing_key = "material.shortage"
                   /\ event.material_id = loc[p].material_id
                   /\ event.requested_quantity = loc[p].requested_quantity
                   /\ event.current_quantity = loc[p].available_quantity
                   /\ event.shortage = loc[p].shortage
                   /\ pc'[p] = "idle"
                   /\ result'.op = "check"
                   /\ result'.success
                   /\ result'.value = event.current_quantity
                   /\ result'.shortage = event.shortage
      ]_vars

\* C13 witness: with part of the stock reserved, a check that asked for more
\* than was available has returned, and the broker holds its one event.
ShortageEventOnChannel ==
    /\ Len(messages) = 1
    /\ messages[1].routing_key = "material.shortage"
    /\ messages[1].shortage = 1
    /\ messages[1].current_quantity = 1
    /\ messages[1].requested_quantity = 2
    /\ materials[messages[1].material_id].quantity = 2
    /\ materials[messages[1].material_id].reserved = 1
    /\ result.op = "check"
    /\ result.shortage = 1
    /\ result.value = 1
    /\ \A p \in Callers : pc[p] = "idle"

RedeliveryAddsNoOrder ==
    Cardinality(DOMAIN orders) <= 1

\* C16: adjustQuantity(material_id, delta, reason, reference_id) on a stored
\* material writes quantity = max(0, quantity + delta), appends exactly one
\* stock movement with the delta, reason and reference_id it was given, and
\* answers with the quantity it wrote; on an unknown material it answers
\* "not found" and leaves materials and movements as they were.
AdjustQuantityContract ==
    [][\A p \in Solo :
          /\ \A m \in MaterialIds, d \in Deltas, rs \in StockUpdateReason,
                ref \in GivenReferenceIds :
                update_quantity_select(p, m, d, rs, ref)
                => /\ materials' = materials
                   /\ movements' = movements
                   /\ m \in DOMAIN materials =>
                        /\ pc'[p] = "update_quantity_commit"
                        /\ loc'[p].material_id = m
                        /\ loc'[p].delta = d
                        /\ loc'[p].reason = rs
                        /\ loc'[p].reference_id = ref
                   /\ m \notin DOMAIN materials =>
                        /\ pc'[p] = "idle"
                        /\ result'.op = "adjust"
                        /\ result'.material_id = m
                        /\ ~result'.success
                        /\ result'.error = "not found"
          /\ update_quantity_commit(p)
             => LET m == loc[p].material_id
                    sum == materials[m].quantity + loc[p].delta IN
                /\ materials'[m].quantity = (IF sum < 0 THEN 0 ELSE sum)
                /\ movements' = Append(movements,
                      [material_id |-> m, quantity_delta |-> loc[p].delta,
                       reason |-> loc[p].reason,
                       reference_id |-> loc[p].reference_id])
                /\ pc'[p] = "update_quantity_refresh"
                /\ loc'[p] = loc[p]
          /\ update_quantity_refresh(p)
             => /\ materials' = materials
                /\ movements' = movements
                /\ loc'[p].material_id = loc[p].material_id
                /\ pc'[p] = "update_stock_publish"
          /\ \A outcome \in {"True", "False"} :
                update_stock_publish(p, outcome)
                => /\ materials' = materials
                   /\ movements' = movements
                   /\ pc'[p] = "idle"
                   /\ result'.op = "adjust"
                   /\ result'.material_id = loc[p].material_id
                   /\ result'.success
                   /\ result'.value = materials[loc[p].material_id].quantity
      ]_vars

\* C16 witness: an adjustment by -1 for CONSUMPTION with reference "ref1" has
\* returned the new quantity, and its one movement carries what was given.
AdjustmentRecorded ==
    /\ \A p \in Callers : pc[p] = "idle"
    /\ result.op = "adjust"
    /\ result.success
    /\ result.material_id \in DOMAIN materials
    /\ result.value = initial_quantity[result.material_id] - 1
    /\ materials[result.material_id].quantity = result.value
    /\ Len(movements) = 1
    /\ movements[1].material_id = result.material_id
    /\ movements[1].quantity_delta = 0 - 1
    /\ movements[1].reason = "CONSUMPTION"
    /\ movements[1].reference_id = "ref1"

\* C17: whatever adjustments are made, in whatever order their steps run,
\* the quantity of every material is at least 0.
QuantityNeverNegative ==
    \A m \in DOMAIN materials : materials[m].quantity >= 0

\* C17 witness: two adjustments by -1 have been applied to a material that
\* was created with quantity 1; the second asked for more than was left and
\* the quantity stands at 0.
AdjustedBelowStock ==
    /\ \A p \in Callers : pc[p] = "idle"
    /\ Len(movements) = 2
    /\ movements[1].material_id = movements[2].material_id
    /\ movements[1].quantity_delta = 0 - 1
    /\ movements[2].quantity_delta = 0 - 1
    /\ initial_quantity[movements[1].material_id] = 1
    /\ materials[movements[1].material_id].quantity = 0

\* C18: when the only adjustment a material has had is +d for PURCHASE
\* (d > 0), the commit of an adjustment by -d for CONSUMPTION puts its
\* quantity back to what it was before the two and leaves exactly two stock
\* movements.
RoundTripRestoresQuantity ==
    [][\A p \in Solo :
          /\ update_quantity_commit(p)
          /\ Len(movements) = 1
          /\ movements[1].material_id = loc[p].material_id
          /\ movements[1].quantity_delta > 0
          /\ movements[1].reason = "PURCHASE"
          /\ loc[p].delta = 0 - movements[1].quantity_delta
          /\ loc[p].reason = "CONSUMPTION"
          => /\ materials'[loc[p].material_id].quantity =
                   initial_quantity[loc[p].material_id]
             /\ Len(movements') = 2
             /\ movements'[1] = movements[1]
             /\ movements'[2].quantity_delta = loc[p].delta
      ]_vars

\* C18 witness: +1 for PURCHASE and then -1 for CONSUMPTION have both
\* returned, the material has its first quantity again, two movements exist.
RoundTripDone ==
    /\ \A p \in Callers : pc[p] = "idle"
    /\ result.op = "adjust"
    /\ result.success
    /\ Len(movements) = 2
    /\ movements[1].material_id = movements[2].material_id
    /\ movements[1].quantity_delta = 1
    /\ movements[1].reason = "PURCHASE"
    /\ movements[2].quantity_delta = 0 - 1
    /\ movements[2].reason = "CONSUMPTION"
    /\ materials[movements[1].material_id].quantity =
           initial_quantity[movements[1].material_id]
    /\ result.value = initial_quantity[movements[1].material_id]

\* C19: a reserve(material_id, quantity, request_id) that succeeds found
\* available >= quantity, adds exactly quantity to the material's reserved,
\* appends exactly one reservation, ACTIVE, with the material_id, request_id
\* and quantity of the call, and returns that reservation's id.
ReserveContract ==
    [][\A p \in Solo :
          /\ \A m \in MaterialIds, q \in ReserveQuantities, r \in RequestIds :
                /\ ReserveMaterialUseCase_execute(p, m, q, r)
                /\ pc'[p] # "idle"
                => /\ loc'[p].material_id = m
                   /\ loc'[p].quantity = q
                   /\ loc'[p].request_id = r
                   /\ materials' = materials
                   /\ reservations' = reservations
          /\ reserve_select(p)
             => /\ loc'[p].material_id = loc[p].material_id
                /\ loc'[p].quantity = loc[p].quantity
                /\ loc'[p].request_id = loc[p].request_id
                /\ materials' = materials
                /\ reservations' = reservations
          /\ reserve_commit(p) /\ result'.success
             => LET m == loc[p].material_id
                    stock == materials[m].quantity - materials[m].reserved
                    free == IF stock < 0 THEN 0 ELSE stock IN
                /\ free >= loc[p].quantity
                /\ materials'[m].reserved =
                       materials[m].reserved + loc[p].quantity
                /\ materials'[m].quantity = materials[m].quantity
                /\ reservations' = Append(reservations,
                      [material_id |-> m, request_id |-> loc[p].request_id,
                       quantity |-> loc[p].quantity, status |-> "ACTIVE"])
                /\ pc'[p] = "idle"
                /\ result'.op = "reserve"
                /\ result'.material_id = m
                /\ result'.value = Len(reservations')
      ]_vars

\* C19 witness: a reserve of the whole stock of 2 for "req1" has returned
\* reservation 1, which is ACTIVE, and the material's reserved is 2.
WholeStockReserved ==
    /\ \A p \in Callers : pc[p] = "idle"
    /\ result.op = "reserve"
    /\ result.success
    /\ result.value = 1
    /\ Len(reservations) = 1
    /\ reservations[1].status = "ACTIVE"
    /\ reservations[1].quantity = 2
    /\ reservations[1].request_id = "req1"
    /\ reservations[1].material_id = result.material_id
    /\ materials[result.material_id].quantity = 2
    /\ materials[result.material_id].reserved = 2

\* C20: a reserve for an unknown material answers "not found", one that asks
\* for more than is available answers "Insufficient quantity", and no reserve
\* that answers with an error has written anything: materials (quantity and
\* reserved), reservations and movements are what they were.
FailedReserveWritesNothing ==
    [][\A p \in Callers :
          /\ \A m \in MaterialIds, q \in ReserveQuantities, r \in RequestIds :
                ReserveMaterialUseCase_execute(p, m, q, r)
                => /\ materials' = materials
                   /\ reservations' = reservations
                   /\ movements' = movements
                   /\ m \notin DOMAIN materials =>
                        /\ pc'[p] = "idle"
                        /\ result'.op = "reserve"
                        /\ ~result'.success
                        /\ result'.error = "not found"
                   /\ m \in DOMAIN materials =>
                        LET stock == materials[m].quantity
                                       - materials[m].reserved
                            free == IF stock < 0 THEN 0 ELSE stock IN
                        q > free =>
                          /\ pc'[p] = "idle"
                          /\ result'.op = "reserve"
                          /\ ~result'.success
                          /\ result'.error = "Insufficient quantity"
          /\ /\ reserve_select(p) \/ reserve_commit(p)
             /\ pc'[p] = "idle"
             /\ ~result'.success
             => /\ materials' = materials
                /\ reservations' = reservations
                /\ movements' = movements
                /\ result'.op = "reserve"
                /\ result'.error # Null
      ]_vars

\* C20 witness: with the whole stock held by one reservation, a further
\* reserve has been refused for insufficient quantity, and the ledger shows
\* the one reservation only.
ReserveRefused ==
    /\ \A p \in Callers : pc[p] = "idle"
    /\ result.op = "reserve"
    /\ ~result.success
    /\ result.error = "Insufficient quantity"
    /\ Len(reservations) = 1
    /\ materials[result.material_id].reserved = reservations[1].quantity
    /\ materials[result.material_id].reserved =
           materials[result.material_id].quantity

LowStockListIsExact ==
    [][\A p \in Solo :
          get_low_stock(p)
          => result'.materials =
               {m \in DOMAIN materials :
                   LET stock == materials[m].quantity - materials[m].reserved
                       free == IF stock < 0 THEN 0 ELSE stock IN
                   free < materials[m].min_threshold}
      ]_vars

\* C23: no step of any ledger operation changes or removes a stock movement
\* that was written before it: the movements of the state before are, in the
\* same order, the first movements of the state after.
MovementsAppendOnly ==
    [][/\ Len(movements') >= Len(movements)
       /\ SubSeq(movements', 1, Len(movements)) = movements]_vars

\* C23 witness: a second adjustment has been recorded after a first, different
\* one, and a release has run since; both movements are on record.
TwoMovementsKept ==
    /\ \A p \in Callers : pc[p] = "idle"
    /\ Len(movements) = 2
    /\ movements[1].quantity_delta = 1
    /\ movements[2].quantity_delta = 0 - 1
    /\ result.op = "release"
    /\ result.success

\* C24: once the broker holds a shortage event, processShortage is eventually
\* invoked (it is placing an order or has answered).
ShortageEventIsDelivered ==
    (\E i \in DOMAIN messages : messages[i].routing_key = "material.shortage")
    ~> (psPc = "placing" \/ shortageResult.outcome # "none")

\* what a step on material m leaves alone: the rows of every other material,
\* and their reservations and stock movements; rows it adds belong to m
OthersUntouched(m) ==
    /\ \A o \in DOMAIN materials : o # m => materials'[o] = materials[o]
    /\ Len(reservations') >= Len(reservations)
    /\ Len(movements') >= Len(movements)
    /\ \A i \in DOMAIN reservations' :
          IF i \in DOMAIN reservations
          THEN reservations[i].material_id # m
                 => reservations'[i] = reservations[i]
          ELSE reservations'[i].material_id = m
    /\ \A i \in DOMAIN movements' :
          IF i \in DOMAIN movements
          THEN movements'[i] = movements[i]
          ELSE movements'[i].material_id = m

\* C25: every step of a reserve, release or adjustQuantity on a material
\* leaves the quantity, reserved, reservations and stock movements of the
\* other materials as they were, and what the call reads and answers is
\* fixed by its own material's row: whether a reserve is refused for
\* insufficient quantity, the row a call selects, the quantity an adjustment
\* writes.
MaterialsAreIndependent ==
    [][\A p \in Callers :
          /\ \A m \in TwoMaterialIds, q \in ReserveQuantities,
                r \in RequestIds :
                ReserveMaterialUseCase_execute(p, m, q, r)
                => LET stock == materials[m].quantity - materials[m].reserved
                       free == IF stock < 0 THEN 0 ELSE stock IN
                   /\ OthersUntouched(m)
                   /\ (pc'[p] = "idle") <=> (q > free)
          /\ reserve_select(p)
             => /\ OthersUntouched(loc[p].material_id)
                /\ loc'[p].row_quantity =
                       materials[loc[p].material_id].quantity
                /\ loc'[p].row_reserved =
                       materials[loc[p].material_id].reserved
          /\ reserve_commit(p) => OthersUntouched(loc[p].material_id)
          /\ \A rid \in ReservationIds :
                release_select_reservation(p, rid)
                => /\ materials' = materials
                   /\ reservations' = reservations
                   /\ movements' = movements
          /\ release_select_material(p)
             => /\ OthersUntouched(loc[p].material_id)
                /\ loc'[p].row_reserved =
                       materials[loc[p].material_id].reserved
          /\ release_commit(p)
             => /\ OthersUntouched(loc[p].material_id)
                /\ loc[p].material_id =
                       reservations[loc[p].reservation_id].material_id
          /\ \A m \in TwoMaterialIds, d \in Deltas, rs \in StockUpdateReason,
                ref \in ReferenceIds :
                update_quantity_select(p, m, d, rs, ref)
                => /\ OthersUntouched(m)
                   /\ loc'[p].row_quantity = materials[m].quantity
          /\ update_quantity_commit(p)
             => /\ OthersUntouched(loc[p].material_id)
                /\ LET sum == loc[p].row_quantity + loc[p].delta IN
                   materials'[loc[p].material_id].quantity =
                       (IF sum < 0 THEN 0 ELSE sum)
          /\ update_quantity_refresh(p)
             => /\ OthersUntouched(loc[p].material_id)
                /\ loc'[p].new_quantity =
                       materials[loc[p].material_id].quantity
          /\ \A outcome \in PublishOutcomes :
                update_stock_publish(p, outcome)
                => OthersUntouched(loc[p].material_id)
      ]_vars

\* C25 witness: m1 and m2 each carry a reservation of their own, m2 has been
\* adjusted by +1 and m1 has not: m1 stands at 1 with 1 reserved, m2 at 2
\* with 1 reserved, and the one stock movement is m2's.
BothMaterialsInUse ==
    /\ \A p \in Callers : pc[p] = "idle"
    /\ DOMAIN materials = TwoMaterialIds
    /\ Len(reservations) = 2
    /\ reservations[1].material_id = "m1"
    /\ reservations[2].material_id = "m2"
    /\ reservations[1].status = "ACTIVE"
    /\ reservations[2].status = "ACTIVE"
    /\ materials["m1"].quantity = 1
    /\ materials["m1"].reserved = 1
    /\ materials["m2"].quantity = 2
    /\ materials["m2"].reserved = 1
    /\ Len(movements) = 1
    /\ movements[1].material_id = "m2"
    /\ movements[1].quantity_delta = 1

\* C26: no step of an adjustQuantity call changes the reserved value of any
\* material or the status or quantity of any reservation.
AdjustLeavesReservedAlone ==
    [][\A p \in Callers :
          (\/ pc[p] = "idle" /\ pc'[p] = "update_quantity_commit"
           \/ update_quantity_commit(p)
           \/ update_quantity_refresh(p)
           \/ \E outcome \in PublishOutcomes : update_stock_publish(p, outcome))
          => /\ \A m \in DOMAIN materials :
                   materials'[m].reserved = materials[m].reserved
             /\ reservations' = reservations
      ]_vars

\* C26 witness: with 1 of its stock reserved, a material has been adjusted by
\* -1 down to quantity 0; its reserved is still 1 and the reservation ACTIVE.
AdjustedUnderReservation ==
    /\ \A p \in Callers : pc[p] = "idle"
    /\ result.op = "adjust"
    /\ result.success
    /\ Len(movements) = 1
    /\ movements[1].material_id = result.material_id
    /\ movements[1].quantity_delta = 0 - 1
    /\ materials[result.material_id].quantity = 0
    /\ materials[result.material_id].reserved = 1
    /\ Len(reservations) = 1
    /\ reservations[1].material_id = result.material_id
    /\ reservations[1].status = "ACTIVE"
    /\ reservations[1].quantity = 1

\* C27: no step of a check changes any material's quantity or reserved, any
\* reservation or any stock movement; the only thing it may add to is the
\* broker's shortage events, and only for a stored material: for an unknown
\* material id it answers NOT_FOUND at once and publishes nothing.
CheckIsPureRead ==
    [][\A p \in Callers :
          /\ \A m \in MaterialIds, q \in RequestedQuantities,
                r \in CheckRequestIds :
                CheckAvailabilityUseCase_execute(p, m, q, r)
                => /\ materials' = materials
                   /\ reservations' = reservations
                   /\ movements' = movements
                   /\ messages' = messages
                   /\ m \notin DOMAIN materials =>
                        /\ pc'[p] = "idle"
                        /\ result'.op = "check"
                        /\ result'.material_id = m
                        /\ ~result'.success
                        /\ result'.error = "NOT_FOUND"
          /\ \A outcome \in PublishOutcomes :
                check_publish(p, outcome)
                => /\ materials' = materials
                   /\ reservations' = reservations
                   /\ movements' = movements
                   /\ loc[p].material_id \in DOMAIN materials
                   /\ \/ messages' = messages
                      \/ /\ Len(messages') = Len(messages) + 1
                         /\ SubSeq(messages', 1, Len(messages)) = messages
                         /\ messages'[Len(messages')].routing_key =
                                "material.shortage"
      ]_vars

\* C27 witness: a check for an unknown material has answered NOT_FOUND while
\* the ledger holds a reservation, and the broker holds only the one event an
\* earlier check of the stored material published.
UnknownMaterialChecked ==
    /\ \A p \in Callers : pc[p] = "idle"
    /\ result.op = "check"
    /\ ~result.success
    /\ result.error = "NOT_FOUND"
    /\ result.material_id \notin DOMAIN materials
    /\ Len(reservations) = 1
    /\ Len(messages) = 1
    /\ messages[1].material_id \in DOMAIN materials

\* C28: a processShortage invocation awaits placeOrder once: whatever the
\* port answers ends the invocation. When the answer is not a success, the
\* invocation saves its one order as CANCELLED, draws no further order id and
\* reports the failure; no step of this or a later invocation touches an
\* order that is CANCELLED.
PlacementIsNotRetried ==
    [][/\ psPc = "placing" => psPc' = "idle" /\ orderSeq' = orderSeq
       /\ psPc = "idle" /\ psPc' = "placing"
            => orderSeq' = orderSeq + 1 /\ orders' = orders
       /\ \A conf \in Confirmations :
             /\ place_order_returns(conf)
             /\ conf.status \in {"FAILED", "REJECTED"}
             => /\ DOMAIN orders' = DOMAIN orders \cup {psOrder.id}
                /\ psOrder.id \notin DOMAIN orders
                /\ orders'[psOrder.id].status = "CANCELLED"
                /\ \A o \in DOMAIN orders : orders'[o] = orders[o]
                /\ psOrder' = NoOrder
                /\ shortageResult'.outcome = "returned"
                /\ ~shortageResult'.success
                /\ shortageResult'.order_id = psOrder.id
       /\ \A o \in DOMAIN orders :
             orders[o].status = "CANCELLED"
             => o \in DOMAIN orders' /\ orders'[o] = orders[o]
      ]_vars

\* C28 witness: the supplier refused the one placement of an invocation; the
\* invocation is over, one order id was drawn, and its order is CANCELLED.
PlacementRefusedOnce ==
    /\ psPc = "idle"
    /\ orderSeq = 1
    /\ DOMAIN orders = {uuid4(1)}
    /\ orders[uuid4(1)].status = "CANCELLED"
    /\ shortageResult.outcome = "returned"
    /\ ~shortageResult.success
    /\ shortageResult.order_id = uuid4(1)

\* C29: every order the repository holds has total_price = unit_price x
\* quantity, in every state, whatever status transitions it went through.
TotalPriceIsUnitTimesQuantity ==
    \A o \in DOMAIN orders :
        orders[o].total_price = orders[o].unit_price * orders[o].quantity

\* C29 witness: an order for 2 units has been placed and brought to
\* DELIVERED; its total is twice its unit price.
DeliveredOrderOfTwo ==
    \E o \in DOMAIN orders :
        /\ orders[o].status = "DELIVERED"
        /\ orders[o].quantity = 2
        /\ orders[o].unit_price > 0
        /\ orders[o].total_price = 2 * orders[o].unit_price

\* C30: for every material returned, available is quantity - reserved when
\* that is positive and 0 otherwise, and is_low_stock is true exactly when
\* available is below min_threshold.
AvailableAndLowStockDerived ==
    (result.op = "get" /\ result.success) =>
        LET m == materials[result.material_id]
            free == IF m.reserved >= m.quantity THEN 0
                    ELSE m.quantity - m.reserved
        IN /\ result.available = free
           /\ result.is_low_stock <=> (free < m.min_threshold)

\* C30 witness: the material with quantity 100, reserved 90 and threshold 20
\* has been returned with available 10 and is_low_stock true.
ExampleMaterialReturned ==
    /\ result.op = "get"
    /\ result.success
    /\ result.quantity = 100
    /\ result.reserved = 90
    /\ result.min_threshold = 20
    /\ result.available = 10
    /\ result.is_low_stock


\* C31: while processShortage awaits the Supplier Placement port its order
\* is PENDING and not yet on record, and an order comes on record as ORDERED
\* only in the step that handles a success confirmation for that very order.
PendingUntilConfirmed ==
    [][ /\ psPc' = "placing"
           => ( /\ psOrder' # NoOrder
                /\ psOrder'.status = "PENDING"
                /\ psOrder'.id \notin DOMAIN orders' )
        /\ \A id \in OrderIds :
              ( /\ id \notin DOMAIN orders
                /\ id \in DOMAIN orders'
                /\ orders'[id].status = "ORDERED" )
              => ( /\ psPc = "placing"
                   /\ psOrder.id = id
                   /\ psOrder.status = "PENDING"
                   /\ \E conf \in Confirmations :
                         /\ conf.status \in {"CONFIRMED", "ACCEPTED", "SUCCESS"}
                         /\ place_order_returns(conf) )
      ]_vars

\* C31 witness: one order has been confirmed and is on record as ORDERED
\* while the next one, PENDING, is with the supplier.
SecondOrderBeingPlaced ==
    /\ psPc = "placing"
    /\ psOrder.status = "PENDING"
    /\ \E o \in DOMAIN orders :
          /\ orders[o].status = "ORDERED"
          /\ orders[o].external_order_id = "EXT-1"


\* C32: no two stored materials share a name, whatever CreateMaterial calls
\* ran and however they interleaved; and a step of a create whose name a
\* stored material already has ends the call with an error and adds nothing.
MaterialNamesUnique ==
    /\ \A a, b \in DOMAIN materials :
          a # b => materials[a].name # materials[b].name
    /\ [][ /\ \A a, b \in DOMAIN materials' :
                a # b => materials'[a].name # materials'[b].name
           /\ \A p \in Callers, name \in MaterialNames :
                ( /\ \E m \in DOMAIN materials : materials[m].name = name
                  /\ \/ \E q \in 0..MaxQuantity, t \in 0..MaxThreshold :
                          CreateMaterialUseCase_execute(p, name, q, t)
                     \/ (pc[p] = "save" /\ loc[p].name = name /\ save(p)) )
                => ( /\ materials' = materials
                     /\ pc'[p] = "idle"
                     /\ result'.op = "create"
                     /\ ~result'.success
                     /\ result'.error \in {"ALREADY_EXISTS", "INTERNAL"} )
         ]_vars

\* C32 witness: two creates of the same new name were in flight together; one
\* is stored, the other has just been refused at its commit.
RacingCreateRefused ==
    /\ result.op = "create"
    /\ result.error = "INTERNAL"
    /\ Cardinality({m \in DOMAIN materials : materials[m].name = "sand"}) = 1


\* C33: the order processShortage creates names an active supplier of the
\* reply that offers the material, at that supplier's unit price for it, for
\* the shortage quantity and the request id of the event; the record saved
\* once the supplier has answered carries the same four values.
OrderReflectsSelection ==
    [][ /\ \A m \in ShortageMaterialIds, q \in ShortageQuantities,
             r \in TriggeringRequestIds, suppliers \in SelectableLists :
             ( /\ ProcessShortageUseCase_execute(m, q, r, suppliers)
               /\ psPc' = "placing" )
             => ( /\ psOrder'.material_id = m
                  /\ \E c \in ActiveOffers(m, suppliers) :
                        /\ c.supplier_id = psOrder'.supplier_id
                        /\ c.unit_price = psOrder'.unit_price
                  /\ \E i \in DOMAIN suppliers :
                        /\ suppliers[i].id = psOrder'.supplier_id
                        /\ suppliers[i].name = psOrder'.supplier_name
                  /\ psOrder'.quantity = q
                  /\ psOrder'.triggered_by_request_id = r )
        /\ \A conf \in Confirmations :
             place_order_returns(conf)
             => ( /\ psOrder.id \in DOMAIN orders'
                  /\ orders'[psOrder.id].material_id = psOrder.material_id
                  /\ orders'[psOrder.id].supplier_id = psOrder.supplier_id
                  /\ orders'[psOrder.id].unit_price = psOrder.unit_price
                  /\ orders'[psOrder.id].quantity = psOrder.quantity
                  /\ orders'[psOrder.id].triggered_by_request_id =
                       psOrder.triggered_by_request_id )
      ]_vars

\* C33 witness: a shortage of 2 of m1 raised by req1, answered by a reply of
\* s1 alone, is on record as an order of 2 from s1 at s1's price for m1.
OrderFromOnlySupplier ==
    \E o \in DOMAIN orders :
        /\ orders[o].material_id = "m1"
        /\ orders[o].supplier_id = "s1"
        /\ orders[o].unit_price = 120
        /\ orders[o].quantity = 2
        /\ orders[o].triggered_by_request_id = "req1"


\* C34: the write of a metadata update leaves the material's quantity and
\* reserved as the ledger holds them at that moment, whatever reserve,
\* release or adjustment was committed since the update read the material.
UpdateMaterialKeepsStock ==
    [][\A p \in Callers :
          update_commit(p)
          => ( /\ materials'[loc[p].material_id].quantity =
                    materials[loc[p].material_id].quantity
               /\ materials'[loc[p].material_id].reserved =
                    materials[loc[p].material_id].reserved )
      ]_vars


\* C35: a reserve call, whatever integer quantity it is given, either fails
\* and leaves reserved as it was or leaves reserved at least as high as
\* before; reserved never goes below 0.
ReserveNeverLowersReserved ==
    [][\A p \in Callers, m \in StoredMaterialIds :
          ( \/ reserve_commit(p)
            \/ reserve_select(p)
            \/ \E q \in AnyReserveQuantities, r \in RequestIds :
                  ReserveMaterialUseCase_execute(p, m, q, r) )
          => ( /\ materials'[m].reserved >= materials[m].reserved
               /\ materials'[m].reserved >= 0
               /\ (pc'[p] = "idle" /\ ~result'.success)
                    => materials'[m].reserved = materials[m].reserved )
      ]_vars


\* the sum of the quantities of the orders in a set
RECURSIVE OrderedQuantity(_)
OrderedQuantity(ids) ==
    IF ids = {} THEN 0
    ELSE LET id == CHOOSE id \in ids : TRUE IN
         orders[id].quantity + OrderedQuantity(ids \ {id})

\* C36: however often DELIVERED is applied to an order, at most one PURCHASE
\* stock movement references it, and a material's quantity is above the one
\* it was created with by no more than one order quantity per order for it.
OrderFeedsLedgerAtMostOnce ==
    /\ \A id \in DOMAIN orders :
          Cardinality({i \in DOMAIN movements :
                          /\ movements[i].reason = "PURCHASE"
                          /\ movements[i].reference_id = id}) <= 1
    /\ \A m \in DOMAIN materials :
          materials[m].quantity <=
              initial_quantity[m]
              + OrderedQuantity({id \in DOMAIN orders :
                                    orders[id].material_id = m})

\* C36 witness: with an inventory client injected, a DELIVERED update has been
\* applied to an order for m1 that is DELIVERED; the ledger holds the quantity
\* m1 was created with and no movement.
DeliveredAgainWithClient ==
    /\ inventory_client
    /\ statusResult.outcome = "returned"
    /\ statusResult.status = "DELIVERED"
    /\ \E id \in DOMAIN orders :
          /\ orders[id].status = "DELIVERED"
          /\ orders[id].material_id = "m1"
    /\ materials["m1"].quantity = initial_quantity["m1"]
    /\ movements = <<>>


\* C37: every order on record that is ORDERED or DELIVERED carries an
\* external order id and an expected delivery.
OrderedHasConfirmationDetails ==
    \A id \in DOMAIN orders :
        orders[id].status \in {"ORDERED", "DELIVERED"}
        => ( /\ orders[id].external_order_id # Null
             /\ orders[id].expected_delivery # Null )


\* the sum of quantity_delta over the first n stock movements of a material
RECURSIVE MovedQuantity(_, _)
MovedQuantity(m, n) ==
    IF n = 0 THEN 0
    ELSE MovedQuantity(m, n - 1)
         + (IF movements[n].material_id = m
            THEN movements[n].quantity_delta ELSE 0)

\* C38: each material's quantity is the quantity it was created with plus the
\* sum of the quantity_delta of its stock movements.
QuantityReconcilesWithMovements ==
    \A m \in DOMAIN materials :
        materials[m].quantity =
            initial_quantity[m] + MovedQuantity(m, Len(movements))


\* C39: no step of a reserve or of a release changes a material's quantity or
\* adds a stock movement, and a step that changes a quantity or the stock
\* movements is the commit of an adjustQuantity call.
OnlyAdjustChangesQuantity ==
    [][ /\ \A p \in Callers :
             ( \/ reserve_select(p)
               \/ reserve_commit(p)
               \/ release_select_material(p)
               \/ release_commit(p) )
             => ( /\ \A m \in DOMAIN materials :
                        materials'[m].quantity = materials[m].quantity
                  /\ movements' = movements )
        /\ ( \/ movements' # movements
             \/ \E m \in DOMAIN materials :
                   materials'[m].quantity # materials[m].quantity )
           => \E p \in Callers : update_quantity_commit(p)
      ]_vars


\* C40: when the call before a release was the successful reserve that made
\* the reservation now released, the release's commit puts the material's
\* reserved and available back to what they were before that reserve and
\* leaves the reservation CANCELLED.
ReserveReleaseRoundTrip ==
    [][\A p \in Solo :
          ( /\ release_commit(p)
            /\ result.op = "reserve"
            /\ result.success
            /\ result.value = loc[p].reservation_id
            /\ loc[p].reservation_id = Len(reservations) )
          => LET rid == loc[p].reservation_id
                 m == reservations[rid].material_id
                 before == materials[m].reserved - reservations[rid].quantity
                 free(r) == IF materials[m].quantity - r < 0 THEN 0
                            ELSE materials[m].quantity - r IN
             /\ materials'[m].reserved = before
             /\ materials'[m].quantity = materials[m].quantity
             /\ available(materials'[m]) = free(before)
             /\ reservations'[rid].status = "CANCELLED"
      ]_vars

====
